---- MODULE Spec2Model ----
(***************************************************************************)
(* Model of the in-memory job queue of backend/app/core/jobs.py and of the *)
(* route DELETE /api/jobs/{job_id} of backend/app/api/routes/jobs.py.      *)
(*                                                                         *)
(* The queue runs on one asyncio event loop: a coroutine runs without      *)
(* interruption from one suspension point to the next, so one action of    *)
(* the model is one such uninterrupted run; only the run that admits a job *)
(* is taken in two steps (status = RUNNING, then the work function), with  *)
(* nothing else happening in between.  The loop's ready queue is FIFO;     *)
(* tasks waiting for something external (a sleep, an executor call) are    *)
(* put on it by FutureDone at an arbitrary moment.                         *)
(*                                                                         *)
(* The concurrency slot is an asyncio.Semaphore (CPython 3.11, the oldest  *)
(* version that provides datetime.UTC, which jobs.py imports): release()   *)
(* hands the slot to the first waiter whose future is not done, and that   *)
(* waiter stays Pending until the loop resumes it.                         *)
(*                                                                         *)
(* Specifications: Spec is the queue with its clients and the clock;       *)
(* LiveSpec is the queue without cancellation, under fairness; FifoSpec is *)
(* the queue with one more job and no clock; JobSpec is a job used through *)
(* its own methods, with progress observers registered on it.              *)
(***************************************************************************)
EXTENDS Integers, Sequences, FiniteSets, TLC

\* ---------------------------------------------------------------- bounds
MaxJobs == 2
MaxConcurrent == 2
MaxCancels == 2
MaxTime == 1
MaxAge == 1
MaxObservers == 2
MaxObservedJobs == 1
MaxStream == 3
MaxFileAge == 3
MaxAgeDays == 1
MaxStores == 3
MaxCacheTime == 2
\* The match cache's time to live and size limit, in the units of this
\* model: the clock counts in units of _CACHE_TTL_SECONDS, and the cache
\* holds MaxCacheItems entries where the source holds _MAX_CACHE_ITEMS.
CacheTtl == 1
MaxCacheItems == 2

\* ------------------------------------------------------------- constants
PENDING == "pending"
RUNNING == "running"
COMPLETED == "completed"
FAILED == "failed"
CANCELLED == "cancelled"

JobStatus == {PENDING, RUNNING, COMPLETED, FAILED, CANCELLED}
Terminal == {COMPLETED, FAILED, CANCELLED}

\* Python's None for result / error, and for the two optional timestamps.
None == "None"
NoTime == -1

\* progress is kept in tenths: 0.0 .. 1.0 is 0 .. 10
ProgressZero == 0
ProgressFull == 10

CancelledMessage == "Job was cancelled"

\* The ids of the jobs a run can submit; the last one is used only by the
\* runs that submit one job more than MaxJobs.
JobIds == 1..(MaxJobs + 1)

\* What a work function may return, raise, and report.
Results == {None, "ok"}
Errors == {"boom"}
ProgressInputs == {-5, 5, 15}
Updates == {[p |-> x, step |-> "matching", message |-> "halfway"] : x \in ProgressInputs}
UpdChoices == {<<>>} \cup {<<u>> : u \in Updates}

\* The progress observers that can be registered on a job.
Observers == 1..MaxObservers

\* The observer the websocket handler registers, its closure progress_callback.
ProgressCallback == 0

\* Close codes of the websocket: the handler's "Job not found" code and the
\* code of a close() without arguments.
CloseNotFound == 4004
CloseDefault == 1000

VARIABLES
    maxc,         \* max_concurrent the queue was constructed with
    jobmap,       \* keys of JobQueue._jobs
    job,          \* the Job objects, by id
    task,         \* the asyncio task supervising each job (Job._task)
    sem_value,    \* JobQueue._semaphore._value
    sem_waiters,  \* JobQueue._semaphore._waiters, as the ids of the waiting jobs
    ready,        \* the event loop's ready queue
    waiting,      \* per job: the cancel() calls suspended at "await job._task",
                  \* each as the status the job had when cancel() was called
    nextId,       \* the next unused job id
    now,          \* the clock read by datetime.now(UTC)
    quota,        \* how many jobs the clients submit in this run
    callbacks,    \* per job: Job._progress_callbacks, a list of observers
    dispatch,     \* the last update_progress call that notified observers
    ws,           \* the handler of the progress websocket and its connection
    disk,         \* the recovery directory and the calls working on it
    cache,        \* the match cache: _CACHE, its directory and the last call
    http,         \* the last preflight request and the middleware's response
    env           \* os.environ, the CA bundles on disk and the last call

vars == <<maxc, jobmap, job, task, sem_value, sem_waiters, ready, waiting, nextId, now,
          quota, callbacks, dispatch, ws, disk, cache, http, env>>

\* ------------------------------------------------------------ job object
NewJob ==
    [status |-> PENDING, progress |-> ProgressZero, step |-> "", message |-> "",
     started_at |-> NoTime, completed_at |-> NoTime, error |-> None,
     result |-> None, cancel_event |-> FALSE]

\* pc: "none" no task yet, "new" created and not yet run, "acquire" waiting in
\* Semaphore.acquire, "enter" holding the slot and about to call the work
\* function or to go on in it after update_progress returned, "dispatch"
\* inside update_progress, "func" suspended inside the work function, "done" returned,
\* "cancelled" ended by CancelledError.  fut: the future the task waits on.
\* caught: the work function has swallowed a CancelledError thrown into it.
\* outcome: how the work function ended, <<>> while it has not:
\* <<"return", v>>, <<"raise", e>> or <<"cancelled">>.
\* thread: a function the work function handed to loop.run_in_executor is
\* executing in a thread of the executor.
NewTask ==
    [pc |-> "none", fut |-> "none", must_cancel |-> FALSE, caught |-> FALSE,
     outcome |-> <<>>, thread |-> FALSE]

TaskFinished == {"done", "cancelled"}

\* Entries of the ready queue: a step of the task of job j, or the resumption
\* of a cancel(j) call that was made when the job had status "at".
TaskItem(j) == [kind |-> "task", id |-> j, at |-> ""]
CallItem(j, st) == [kind |-> "call", id |-> j, at |-> st]

\* The part of the state a step of the loop works on, as one record.
Cur ==
    [job |-> job, task |-> task, value |-> sem_value, waiters |-> sem_waiters,
     ready |-> ready, waiting |-> waiting]

Apply(s) ==
    /\ job' = s.job
    /\ task' = s.task
    /\ sem_value' = s.value
    /\ sem_waiters' = s.waiters
    /\ ready' = s.ready
    /\ waiting' = s.waiting

RECURSIVE AppendCalls(_, _, _)
AppendCalls(q, j, ats) ==
    IF ats = <<>> THEN q
    ELSE AppendCalls(Append(q, CallItem(j, Head(ats))), j, Tail(ats))

\* The task of job j ends; every cancel() awaiting it is scheduled to resume,
\* in the order the calls began to wait.
TaskEnds(s, j, how) ==
    [s EXCEPT
       !.task[j] = [@ EXCEPT !.pc = how, !.fut = "none", !.must_cancel = FALSE],
       !.waiting[j] = <<>>,
       !.ready = AppendCalls(@, j, s.waiting[j])]

\* ------------------------------------------------------------- semaphore
PendingWaiters(s) == SelectSeq(s.waiters, LAMBDA w : s.task[w].fut = "pending")

\* Semaphore._wake_up_next
WakeUpNext(s) ==
    IF PendingWaiters(s) = <<>> THEN s
    ELSE LET w == Head(PendingWaiters(s))
         IN [s EXCEPT !.value = @ - 1,
                      !.task[w].fut = "result",
                      !.ready = Append(@, TaskItem(w))]

\* Semaphore.locked
Locked(s) ==
    \/ s.value = 0
    \/ \E i \in 1..Len(s.waiters) : s.task[s.waiters[i]].fut # "cancelled"

\* Semaphore.release, the exit of "async with self._semaphore"
Release(s) == WakeUpNext([s EXCEPT !.value = @ + 1])

RemoveWaiter(s, j) == [s EXCEPT !.waiters = SelectSeq(@, LAMBDA w : w # j)]

\* ------------------------------------------------------------------- Job
Clamp(p) == IF p < ProgressZero THEN ProgressZero ELSE IF p > ProgressFull THEN ProgressFull ELSE p

\* Mutant: the reported value is stored as it comes.
update_progress_no_clamp(s, j, u) ==
    [s EXCEPT !.job[j].progress = u.p,
              !.job[j].step = u.step,
              !.job[j].message = u.message]

update_progress(s, j, u) ==
    [s EXCEPT !.job[j].progress = Clamp(u.p),
              !.job[j].step = u.step,
              !.job[j].message = u.message]

\* Mutant: the request itself already records the cancellation error.
request_cancellation_sets_error(s, j) ==
    [s EXCEPT !.job[j].cancel_event = TRUE, !.job[j].error = CancelledMessage]

request_cancellation(s, j) == [s EXCEPT !.job[j].cancel_event = TRUE]

is_cancellation_requested(s, j) == s.job[j].cancel_event

\* Job.add_progress_callback
add_progress_callback(cbs, o) == Append(cbs, o)

\* Job.remove_progress_callback: list.remove takes out the first occurrence.
remove_progress_callback(cbs, o) ==
    IF \E i \in 1..Len(cbs) : cbs[i] = o
    THEN LET i == CHOOSE k \in 1..Len(cbs) :
                      cbs[k] = o /\ \A m \in 1..(k - 1) : cbs[m] # o
         IN SubSeq(cbs, 1, i - 1) \o SubSeq(cbs, i + 1, Len(cbs))
    ELSE cbs

\* An update_progress call in progress or returned.  st: "idle" before the
\* first call, "running" inside the loop over the callbacks, "returned",
\* "raised" when an exception left update_progress.  idx: the position of
\* the list iterator, begun: the list when the loop began, invoked: the
\* observers called so far with what each saw on the job and whether it
\* raised, removed: the observers removed while the loop was running,
\* mutated: whether the list was changed while the loop was running.
NoDispatch ==
    [st |-> "idle", j |-> 0, upd |-> <<>>, idx |-> 0, begun |-> <<>>,
     invoked |-> <<>>, removed |-> {}, mutated |-> FALSE]

\* What an observer can do to the callback list while it is being called.
Mutations ==
    {<<"none">>} \cup {<<"remove", o>> : o \in Observers}
                 \cup {<<"add", o>> : o \in Observers}

Mutate(cbs, m) ==
    CASE m[1] = "remove" -> remove_progress_callback(cbs, m[2])
      [] m[1] = "add" -> add_progress_callback(cbs, m[2])
      [] OTHER -> cbs

\* ------------------------------------------------------ progress websocket
\* pc: "none" no connection, "accepted" after websocket.accept(),
\* "snapshot" suspended in the send of the initial status, "waiting"
\* suspended in wait_for(progress_queue.get()), "update" suspended in the
\* send of an update, "final" suspended in the send of the final message,
\* "done" returned.  id: the job_id of the url.  jobvar: the handler's
\* variable "job", <<>> for None.  queue: progress_queue.  sent: the
\* messages the listener was sent.  connected: the listener is still there.
NoListener ==
    [pc |-> "none", id |-> 0, jobvar |-> <<>>, queue |-> <<>>, sent |-> <<>>,
     connected |-> FALSE, closed |-> FALSE, code |-> 0]

\* --------------------------------------------------------- recovery store
\* The projects that can be saved: an id and a name that may change
\* between two saves.
ProjectIds == {"p1", "p2"}
ProjectNames == {"A", "B"}
Projects == [id : ProjectIds, name : ProjectNames]

\* A file of the directory that matches "*.alproj.tmp" and that no
\* save_recovery_state call has written.
StrayFile == <<"stray", ".alproj.tmp">>

\* Mutant: every project is saved under the same name.
_get_recovery_filename_shared(project_id) == StrayFile

\* f"{project_id}.alproj.tmp", as the pair of its two parts
_get_recovery_filename(project_id) == <<project_id, ".alproj.tmp">>

\* The names recovery_dir.glob("*.alproj.tmp") can yield.
FileNames == {_get_recovery_filename(p) : p \in ProjectIds} \cup {StrayFile}

\* A name of the directory: whether a file is there, and its content as the
\* sequence of the pieces written to it.
\* mtime: the clock when the file was last written.
NoFile == [there |-> FALSE, text |-> <<>>, mtime |-> 0]
FileOf(text) == [there |-> TRUE, text |-> text, mtime |-> now]

\* The outcome of the last call on the store: op "none" before any,
\* returned for clear_recovery_state, path for save_recovery_state, data for
\* load_recovery_state (<<>> is None), entries for list_recovery_files,
\* count for cleanup_old_recovery_files, raised the exception that left the
\* call ("" if it returned).
NoReturn ==
    [op |-> "none", returned |-> FALSE, path |-> <<>>, data |-> <<>>, entries |-> {},
     count |-> 0, raised |-> ""]

\* The recovery directory before anything was saved.  files: the directory;
\* saving: the save_recovery_state call in progress, <<>> if none; ret: the
\* outcome of the last call; saved: per project id the project of the last
\* save_recovery_state call that returned, <<>> if none or if cleared since;
\* protects: the project_id of each job the process route submitted.
EmptyDisk ==
    [files |-> [f \in FileNames |-> NoFile],
     saving |-> <<>>,
     ret |-> NoReturn,
     saved |-> [p \in ProjectIds |-> <<>>],
     protects |-> [j \in JobIds |-> <<>>]]

Message(kind, progress, step, message, status, result) ==
    [kind |-> kind, progress |-> progress, step |-> step, message |-> message,
     status |-> status, result |-> result, job_id |-> ""]

\* {"error": "Job not found", "job_id": str(job_id)}
NotFoundMessage(j) ==
    [Message("error", 0, "", "Job not found", "", None) EXCEPT !.job_id = ToString(j)]

\* {"error": str(e)}
ErrorMessage == Message("error", 0, "", "send failed", "", None)

\* The initial status message
SnapshotMessage(jb) ==
    Message("snapshot", jb.progress,
            IF jb.step = "" THEN "pending" ELSE jb.step,
            IF jb.message = "" THEN "Waiting to start..." ELSE jb.message,
            jb.status, None)

\* The message for one JobProgress taken from progress_queue
UpdateMessage(u) == Message("update", u.progress, u.step, u.message, RUNNING, None)

\* The message sent when the job is found in a terminal status
FinalMessage(jb) ==
    Message("final", jb.progress,
            IF jb.status = COMPLETED THEN "finished" ELSE jb.step,
            IF jb.status = FAILED THEN jb.error ELSE "Processing complete",
            jb.status,
            IF jb.status = COMPLETED THEN jb.result ELSE None)

\* Mutant: the loop walks the callback list from its end.
current_callback_reversed(cbs, idx) == cbs[Len(cbs) + 1 - idx]

\* "for callback in self._progress_callbacks": the list iterator yields the
\* element at its position in the list as the list is at that moment.
current_callback(cbs, idx) == cbs[idx]

\* Mutant: an exception raised by a callback leaves update_progress.
after_callback_propagates(d, raises) ==
    IF raises THEN [d EXCEPT !.st = "raised"] ELSE [d EXCEPT !.idx = @ + 1]

\* "try: await callback(update) / except Exception": whether the callback
\* returned or raised, the loop goes on with the next position.
after_callback(d, raises) == [d EXCEPT !.idx = @ + 1]

\* --------------------------------------------------------------- _run_job
\* "finally: job.completed_at = now", then the semaphore is released and the
\* task returns.
\* Mutant: the slot is not released when the supervisor leaves.
LeaveRunJob_no_release(s, j) ==
    TaskEnds([s EXCEPT !.job[j].completed_at = now], j, "done")

LeaveRunJob(s, j) ==
    TaskEnds(Release([s EXCEPT !.job[j].completed_at = now]), j, "done")

\* Mutant: the last reported progress is kept on success.
OnReturn_keeps_progress(s, j, v) ==
    LeaveRunJob([s EXCEPT !.job[j].result = v,
                          !.job[j].status = COMPLETED], j)

OnReturn(s, j, v) ==
    LeaveRunJob([s EXCEPT !.job[j].result = v,
                          !.job[j].status = COMPLETED,
                          !.job[j].progress = ProgressFull], j)

OnCancelled(s, j) ==
    LeaveRunJob([s EXCEPT !.job[j].status = CANCELLED,
                          !.job[j].error = CancelledMessage], j)

\* Mutant: the failure path leaves without releasing the slot.
OnException_leak(s, j, e) ==
    TaskEnds([s EXCEPT !.job[j].status = FAILED,
                       !.job[j].error = e,
                       !.job[j].completed_at = now], j, "done")

\* Mutant: the failure is recorded without the error's description.
OnException_no_message(s, j, e) ==
    LeaveRunJob([s EXCEPT !.job[j].status = FAILED], j)

OnException(s, j, e) ==
    LeaveRunJob([s EXCEPT !.job[j].status = FAILED,
                          !.job[j].error = e], j)

\* The work function awaits something external and the task is suspended.
Suspend(s, j) ==
    [s EXCEPT !.task[j].pc = "func", !.task[j].fut = "pending",
              !.task[j].must_cancel = FALSE]

\* One uninterrupted run of the work function of job j, up to its next
\* suspension or its end.  thrown: a CancelledError is thrown into it at the
\* await where it was suspended.  It may report progress (upd) and then
\* out = "propagate": lets the thrown CancelledError through
\*       "return" / "raise": ends with value v / exception e
\*       "check": awaits job.check_cancellation() and then something external
\*       "suspend": awaits something external
RunFunc(s, j, thrown, upd, out, v, e) ==
    IF thrown /\ out = "propagate"
    THEN OnCancelled([s EXCEPT !.task[j].outcome = <<"cancelled">>], j)
    ELSE LET s0 == IF thrown THEN [s EXCEPT !.task[j].caught = TRUE] ELSE s
             s1 == IF upd = <<>> THEN s0 ELSE update_progress(s0, j, upd[1])
         IN CASE out = "return" ->
                    OnReturn([s1 EXCEPT !.task[j].outcome = <<"return", v>>], j, v)
              [] out = "raise" ->
                    OnException([s1 EXCEPT !.task[j].outcome = <<"raise", e>>], j, e)
              [] out = "check" ->
                    IF is_cancellation_requested(s1, j)
                    THEN OnCancelled([s1 EXCEPT !.task[j].outcome = <<"cancelled">>], j)
                    ELSE Suspend(s1, j)
              [] OTHER -> Suspend(s1, j)

\* Mutant: the supervisor marks the job Running without stamping started_at.
EnterRunning_no_stamp(s, j) ==
    [s EXCEPT !.job[j].status = RUNNING,
              !.task[j].pc = "enter", !.task[j].fut = "none",
              !.ready = <<TaskItem(j)>> \o @]

\* The slot is held: status = RUNNING, started_at = now.  The task goes on to
\* call func(job) without yielding to the loop: it stays at the head of the
\* ready queue and nothing else happens before its next step.
EnterRunning(s, j) ==
    [s EXCEPT !.job[j].status = RUNNING, !.job[j].started_at = now,
              !.task[j].pc = "enter", !.task[j].fut = "none",
              !.ready = <<TaskItem(j)>> \o @]

\* Mutant: the supervisor starts the work without waiting for a slot.
run_job_begin_no_gate(s, j) ==
    EnterRunning([s EXCEPT !.value = @ - 1], j)

\* First run of the task: "async with self._semaphore" either takes a free
\* slot at once or queues a future on the semaphore.
run_job_begin(s, j) ==
    IF ~Locked(s)
    THEN EnterRunning([s EXCEPT !.value = @ - 1], j)
    ELSE [s EXCEPT !.waiters = Append(@, j),
                   !.task[j].pc = "acquire", !.task[j].fut = "pending"]

\* Mutant: a cancelled waiter goes on into the block as if it held a slot.
run_job_acquired_enters(s, j, thrown) ==
    LET s1 == RemoveWaiter(s, j)
        s2 == IF s1.value > 0 THEN WakeUpNext(s1) ELSE s1
    IN EnterRunning(s2, j)

\* The task resumes inside Semaphore.acquire.
run_job_acquired(s, j, thrown) ==
    LET s1 == RemoveWaiter(s, j)
    IN IF thrown
       THEN \* CancelledError leaves acquire(): _run_job never reaches its try
            LET s2 == IF s.task[j].fut # "cancelled"
                      THEN WakeUpNext([s1 EXCEPT !.value = @ + 1])
                      ELSE s1
            IN TaskEnds(s2, j, "cancelled")
       ELSE LET s2 == IF s1.value > 0 THEN WakeUpNext(s1) ELSE s1
            IN EnterRunning(s2, j)

\* Task.__step of the task of job j
TaskStep(s, j, upd, out, v, e) ==
    LET t == s.task[j]
        thrown == t.must_cancel \/ t.fut = "cancelled"
        s0 == [s EXCEPT !.task[j].must_cancel = FALSE]
    IN CASE t.pc = "new" ->
                IF thrown THEN TaskEnds(s0, j, "cancelled")
                ELSE run_job_begin(s0, j)
         [] t.pc = "acquire" -> run_job_acquired(s0, j, thrown)
         [] OTHER -> RunFunc(s0, j, thrown, upd, out, v, e)

\* What one run of the work function can do: report progress or not, then
\* suspend, poll the cancellation flag, return a value or raise an error; a
\* CancelledError thrown into it is let through or swallowed.
Choices(thrown) ==
    {[upd |-> u, out |-> o, v |-> None, e |-> None] :
        u \in UpdChoices, o \in {"suspend", "check"}}
    \cup {[upd |-> u, out |-> "return", v |-> r, e |-> None] :
        u \in UpdChoices, r \in Results}
    \cup {[upd |-> u, out |-> "raise", v |-> None, e |-> x] :
        u \in UpdChoices, x \in Errors}
    \cup (IF thrown
          THEN {[upd |-> <<>>, out |-> "propagate", v |-> None, e |-> None]}
          ELSE {})

Thrown(j) == task[j].must_cancel \/ task[j].fut = "cancelled"

\* ---------------------------------------------------------- match cache
\* The ids uuid4 yields, in the order they are drawn, and the match results.
MatchIds == 1..MaxStores
Matches == {"m1", "m2"}

\* The outcome of the last call: op "none" before any; id the id store_match
\* returned or get_match was asked for; value the match get_match returned,
\* <<>> for None; raised the exception that left the call.
NoCacheReturn == [op |-> "none", id |-> 0, value |-> <<>>, raised |-> ""]

\* The match cache before anything was stored.  mem: _CACHE as the list of
\* its entries in insertion order, each with its key; files: the cache
\* directory by match id, <<>> for no file, otherwise the payload and
\* whether pickle.load can read it; usable: the cache directory exists or
\* can be created; ret: the outcome of the last call; stored: what
\* store_match was given for each id it returned.
EmptyCache ==
    [mem |-> <<>>,
     files |-> [i \in MatchIds |-> <<>>],
     usable |-> TRUE,
     ret |-> NoCacheReturn,
     stored |-> <<>>]

\* --------------------------------------------------------- CORS preflight
\* Settings.cors_origins, the default
cors_origins == {"http://localhost:1420", "http://localhost:5173", "tauri://localhost"}

\* The origins a preflight request can carry: those of the desktop shell
\* and of the development servers, and others.
Origins ==
    {"tauri://localhost", "http://tauri.localhost", "https://tauri.localhost",
     "http://localhost:1420", "http://localhost:5173",
     "https://example.com", "http://localhost:3000", "null"}

\* Access-Control-Request-Method and Access-Control-Request-Headers
RequestMethods == {"GET", "POST", "PUT", "DELETE"}
RequestHeaders == {"", "content-type", "authorization", "x-requested-with"}

\* allow_methods=["*"]: the methods the middleware then allows
AllowedMethods == {"DELETE", "GET", "HEAD", "OPTIONS", "PATCH", "POST", "PUT"}

\* The response codes of a preflight
HttpOk == 200
HttpBadRequest == 400

\* No preflight request was made yet.  origin, method, headers: the
\* request; status and allow_origin: the response, allow_origin "" when the
\* header access-control-allow-origin is not set.
NoRequest ==
    [origin |-> "", method |-> "", headers |-> "", status |-> 0, allow_origin |-> ""]

\* ------------------------------------------------------ SSL certificates
\* The environment variables configure_ssl_certificates sets.
CaVariables == {"SSL_CERT_FILE", "REQUESTS_CA_BUNDLE", "CURL_CA_BUNDLE"}

\* The paths a variable can hold: certifi's bundle, a custom bundle that
\* exists and one that is missing.  Unset is the value of a variable that is
\* not in os.environ.
CertifiBundle == "certifi/cacert.pem"
CustomBundle == "custom-ca.pem"
MissingBundle == "missing-ca.pem"
Unset == ""
CaPaths == {CertifiBundle, CustomBundle, MissingBundle}

\* The process environment before it is set up.  vars: os.environ; called:
\* configure_ssl_certificates has returned; ret: what it returned, <<>> for
\* None; before: os.environ when it was called.
NoEnvironment ==
    [vars |-> [v \in CaVariables |-> Unset],
     called |-> FALSE,
     ret |-> <<>>,
     before |-> [v \in CaVariables |-> Unset]]

\* ----------------------------------------------------------------- Init
\* The queue as constructed, in a run where the clients submit n jobs.
InitQuota(n) ==
    /\ maxc \in 1..MaxConcurrent
    /\ jobmap = {}
    /\ job = [j \in JobIds |-> NewJob]
    /\ task = [j \in JobIds |-> NewTask]
    /\ sem_value = maxc
    /\ sem_waiters = <<>>
    /\ ready = <<>>
    /\ waiting = [j \in JobIds |-> <<>>]
    /\ nextId = 1
    /\ now = 0
    /\ quota = n
    /\ callbacks = [j \in JobIds |-> <<>>]
    /\ dispatch = NoDispatch
    /\ ws = NoListener
    /\ disk = EmptyDisk
    /\ cache = EmptyCache
    /\ http = NoRequest
    /\ env = NoEnvironment

Init == InitQuota(MaxJobs)

\* -------------------------------------------------------------- actions
\* No task is in the middle of an uninterrupted run.
LoopIdle == \A j \in JobIds : task[j].pc \notin {"enter", "dispatch"}

\* Mutant: submit returns only once a slot is free.
submit_waits_for_slot ==
    /\ LoopIdle
    /\ nextId <= quota
    /\ ~Locked(Cur)
    /\ jobmap' = jobmap \cup {nextId}
    /\ task' = [task EXCEPT ![nextId].pc = "new"]
    /\ ready' = Append(ready, TaskItem(nextId))
    /\ nextId' = nextId + 1
    /\ UNCHANGED <<callbacks, dispatch, ws, cache, http, env, disk, quota, maxc, job, sem_value, sem_waiters, waiting, now>>

\* Mutant: the loop runs the newest task first.
submit_newest_first ==
    /\ LoopIdle
    /\ nextId <= quota
    /\ jobmap' = jobmap \cup {nextId}
    /\ task' = [task EXCEPT ![nextId].pc = "new"]
    /\ ready' = <<TaskItem(nextId)>> \o ready
    /\ nextId' = nextId + 1
    /\ UNCHANGED <<callbacks, dispatch, ws, cache, http, env, disk, quota, maxc, job, sem_value, sem_waiters, waiting, now>>

\* JobQueue.submit: the job is stored and its supervising task is created,
\* which puts the task's first step at the end of the ready queue.
submit ==
    /\ LoopIdle
    /\ nextId <= quota
    /\ jobmap' = jobmap \cup {nextId}
    /\ task' = [task EXCEPT ![nextId].pc = "new"]
    /\ ready' = Append(ready, TaskItem(nextId))
    /\ nextId' = nextId + 1
    /\ UNCHANGED <<callbacks, dispatch, ws, cache, http, env, disk, quota, maxc, job, sem_value, sem_waiters, waiting, now>>

\* The loop runs the task at the head of the ready queue.
StepTask ==
    /\ ready # <<>>
    /\ Head(ready).kind = "task"
    /\ LET j == Head(ready).id
       IN /\ task[j].pc # "dispatch"
          /\ \E ch \in Choices(Thrown(j)) :
             /\ ch.upd = <<>> \/ callbacks[j] = <<>>
             /\ Apply(TaskStep([Cur EXCEPT !.ready = Tail(@)], j, ch.upd, ch.out, ch.v, ch.e))
    /\ UNCHANGED <<callbacks, dispatch, ws, cache, http, env, disk, quota, maxc, jobmap, nextId, now>>

\* The work function of job j, running, calls job.update_progress(u): the
\* fields are set and the loop over the callbacks begins.  The callbacks of
\* this model do not suspend, so nothing else runs until update_progress
\* has returned.
UpdateProgress(j, u) ==
    /\ ready # <<>>
    /\ Head(ready) = TaskItem(j)
    /\ task[j].pc \in {"enter", "func"}
    /\ ~Thrown(j)
    /\ Len(ws.queue) + Len(ws.sent) < MaxStream
    /\ Apply(update_progress([Cur EXCEPT !.task[j].pc = "dispatch",
                                         !.task[j].fut = "none"], j, u))
    /\ dispatch' = [NoDispatch EXCEPT !.st = "running", !.j = j, !.upd = <<u>>,
                                      !.idx = 1, !.begun = callbacks[j]]
    /\ UNCHANGED <<callbacks, ws, cache, http, env, disk, quota, maxc, jobmap, nextId, now>>

\* One round of the loop in update_progress: the callback at the iterator's
\* position is awaited; it returns or raises, and it may add or remove a
\* callback while it runs.
Invoke(raises, m) ==
    /\ dispatch.st = "running"
    /\ LET j == dispatch.j
           o == current_callback(callbacks[j], dispatch.idx)
           cbs == Mutate(callbacks[j], m)
           seen == [progress |-> job[j].progress, step |-> job[j].step,
                    message |-> job[j].message]
           update == [progress |-> job[j].progress, step |-> dispatch.upd[1].step,
                      message |-> dispatch.upd[1].message]
       IN /\ dispatch.idx <= Len(callbacks[j])
          /\ o = ProgressCallback => (~raises /\ m = <<"none">>)
          /\ ws' = IF o = ProgressCallback
                   THEN [ws EXCEPT !.queue = Append(@, update)]
                   ELSE ws
          /\ Len(cbs) <= MaxObservers
          /\ callbacks' = [callbacks EXCEPT ![j] = cbs]
          /\ dispatch' = after_callback(
                 [dispatch EXCEPT
                    !.invoked = Append(@, [o |-> o, seen |-> seen, raised |-> raises]),
                    !.removed = IF m[1] = "remove" /\ cbs # callbacks[j]
                                THEN @ \cup {m[2]} ELSE @,
                    !.mutated = @ \/ cbs # callbacks[j]], raises)
    /\ UNCHANGED <<cache, http, env, disk, quota, maxc, jobmap, job, task, sem_value, sem_waiters, ready,
                   waiting, nextId, now>>

\* The list iterator is exhausted: update_progress returns to the work
\* function, which goes on running.
EndUpdate ==
    /\ dispatch.st = "running"
    /\ dispatch.idx > Len(callbacks[dispatch.j])
    /\ dispatch' = [dispatch EXCEPT !.st = "returned"]
    /\ task' = [task EXCEPT ![dispatch.j].pc = "enter"]
    /\ UNCHANGED <<callbacks, ws, cache, http, env, disk, quota, maxc, jobmap, job, sem_value, sem_waiters, ready,
                   waiting, nextId, now>>

\* JobQueue.get: the job stored under the id as <<id>>, and None as <<>>
get(j) == IF j \in jobmap THEN <<j>> ELSE <<>>

\* ---------------------------------------------- job_progress_websocket
\* The handler's side of a step: its own state and the callback lists.
Handler == [ws |-> ws, cbs |-> callbacks]

ApplyHandler(h) ==
    /\ ws' = h.ws
    /\ callbacks' = h.cbs

\* "finally": the callback is removed from the job the variable "job" holds,
\* if it holds one, and the websocket is closed.
Finally(h) ==
    LET h1 == IF h.ws.jobvar # <<>>
              THEN [h EXCEPT !.cbs[h.ws.jobvar[1]] =
                                remove_progress_callback(@, ProgressCallback)]
              ELSE h
    IN [h1 EXCEPT !.ws.pc = "done", !.ws.closed = TRUE, !.ws.code = CloseDefault]

\* "except WebSocketDisconnect / except Exception": a send failed; the
\* error message gets through only if the listener is still there.
OnSendError(h) ==
    Finally(IF h.ws.connected
            THEN [h EXCEPT !.ws.sent = Append(@, ErrorMessage)]
            ELSE h)

\* Mutant: the loop goes on after the final message.
LoopTop_no_break(h, ok) ==
    LET id == h.ws.id
        h1 == [h EXCEPT !.ws.jobvar = get(id)]
    IN IF get(id) = <<>> THEN Finally(h1)
       ELSE IF job[id].status \in Terminal
            THEN IF ok
                 THEN [h1 EXCEPT !.ws.sent = Append(@, FinalMessage(job[id])),
                                 !.ws.pc = "update"]
                 ELSE OnSendError(h1)
            ELSE [h1 EXCEPT !.ws.pc = "waiting"]

\* The top of "while True", up to the next suspension: the job is looked up
\* again; if it is gone the loop is left, if it is terminal the final
\* message is sent (ok: the send succeeds), otherwise the handler waits for
\* progress_queue.
LoopTop(h, ok) ==
    LET id == h.ws.id
        h1 == [h EXCEPT !.ws.jobvar = get(id)]
    IN IF get(id) = <<>> THEN Finally(h1)
       ELSE IF job[id].status \in Terminal
            THEN IF ok
                 THEN [h1 EXCEPT !.ws.sent = Append(@, FinalMessage(job[id])),
                                 !.ws.pc = "final"]
                 ELSE OnSendError(h1)
            ELSE [h1 EXCEPT !.ws.pc = "waiting"]

\* Mutant: an unknown job is answered with an ordinary close.
NotFoundReply_default_close(w) ==
    [w EXCEPT !.sent = Append(@, NotFoundMessage(w.id)), !.pc = "done",
              !.closed = TRUE, !.code = CloseDefault]

\* The job is not in the queue: the error message, then close(code=4004).
NotFoundReply(w) ==
    [w EXCEPT !.sent = Append(@, NotFoundMessage(w.id)), !.pc = "done",
              !.closed = TRUE, !.code = CloseNotFound]

\* A listener opens /api/jobs/{j}/ws and the handler accepts.
WsConnect(j) ==
    /\ LoopIdle
    /\ ws.pc = "none"
    /\ ws' = [NoListener EXCEPT !.pc = "accepted", !.id = j, !.connected = TRUE]
    /\ UNCHANGED <<callbacks, dispatch, cache, http, env, disk, quota, maxc, jobmap, job, task, sem_value,
                   sem_waiters, ready, waiting, nextId, now>>

\* The listener goes away.
WsDisconnect ==
    /\ LoopIdle
    /\ ws.pc \notin {"none", "done"}
    /\ ws.connected
    /\ ws' = [ws EXCEPT !.connected = FALSE]
    /\ UNCHANGED <<callbacks, dispatch, cache, http, env, disk, quota, maxc, jobmap, job, task, sem_value,
                   sem_waiters, ready, waiting, nextId, now>>

\* The handler looks the job up and answers not-found, or sends the initial
\* status.  These sends are outside the try block: when one fails the
\* handler ends by that exception.
WsLookup(ok) ==
    /\ LoopIdle
    /\ ws.pc = "accepted"
    /\ ok => ws.connected
    /\ ws' = IF ~ok THEN [ws EXCEPT !.pc = "done"]
             ELSE IF get(ws.id) = <<>> THEN NotFoundReply(ws)
             ELSE [ws EXCEPT !.jobvar = get(ws.id), !.pc = "snapshot",
                             !.sent = Append(@, SnapshotMessage(job[ws.id]))]
    /\ UNCHANGED <<callbacks, dispatch, cache, http, env, disk, quota, maxc, jobmap, job, task, sem_value,
                   sem_waiters, ready, waiting, nextId, now>>

\* The initial status is sent: the callback is registered and the loop begins.
WsRegister(ok) ==
    /\ LoopIdle
    /\ ws.pc = "snapshot"
    /\ ok => ws.connected
    /\ ApplyHandler(LoopTop([Handler EXCEPT !.cbs[ws.id] =
                                add_progress_callback(@, ProgressCallback)], ok))
    /\ UNCHANGED <<dispatch, cache, http, env, disk, quota, maxc, jobmap, job, task, sem_value,
                   sem_waiters, ready, waiting, nextId, now>>

\* progress_queue.get() returns an update, which is sent.
WsReceive(ok) ==
    /\ LoopIdle
    /\ ws.pc = "waiting"
    /\ ws.queue # <<>>
    /\ ok => ws.connected
    /\ LET h == [Handler EXCEPT !.ws.queue = Tail(@)]
       IN ApplyHandler(IF ok
                       THEN [h EXCEPT !.ws.sent = Append(@, UpdateMessage(Head(ws.queue))),
                                      !.ws.pc = "update"]
                       ELSE OnSendError(h))
    /\ UNCHANGED <<dispatch, cache, http, env, disk, quota, maxc, jobmap, job, task, sem_value,
                   sem_waiters, ready, waiting, nextId, now>>

\* wait_for times out on the empty progress_queue: back to the top of the loop.
WsTimeout(ok) ==
    /\ LoopIdle
    /\ ws.pc = "waiting"
    /\ ws.queue = <<>>
    /\ ok => ws.connected
    /\ ApplyHandler(LoopTop(Handler, ok))
    /\ UNCHANGED <<dispatch, cache, http, env, disk, quota, maxc, jobmap, job, task, sem_value,
                   sem_waiters, ready, waiting, nextId, now>>

\* The update is sent: back to the top of the loop.
WsAfterUpdate(ok) ==
    /\ LoopIdle
    /\ ws.pc = "update"
    /\ ok => ws.connected
    /\ ApplyHandler(LoopTop(Handler, ok))
    /\ UNCHANGED <<dispatch, cache, http, env, disk, quota, maxc, jobmap, job, task, sem_value,
                   sem_waiters, ready, waiting, nextId, now>>

\* The final message is sent: break, finally.
WsAfterFinal ==
    /\ LoopIdle
    /\ ws.pc = "final"
    /\ ApplyHandler(Finally(Handler))
    /\ UNCHANGED <<dispatch, cache, http, env, disk, quota, maxc, jobmap, job, task, sem_value,
                   sem_waiters, ready, waiting, nextId, now>>

\* Some coroutine registers observer o on job j.
AddCallback(j, o) ==
    /\ LoopIdle
    /\ task[j].pc # "none"
    /\ Len(callbacks[j]) < MaxObservers
    /\ callbacks' = [callbacks EXCEPT ![j] = add_progress_callback(@, o)]
    /\ UNCHANGED <<dispatch, ws, cache, http, env, disk, quota, maxc, jobmap, job, task, sem_value, sem_waiters,
                   ready, waiting, nextId, now>>

\* Some coroutine unregisters observer o from job j.
RemoveCallback(j, o) ==
    /\ LoopIdle
    /\ task[j].pc # "none"
    /\ callbacks' = [callbacks EXCEPT ![j] = remove_progress_callback(@, o)]
    /\ UNCHANGED <<dispatch, ws, cache, http, env, disk, quota, maxc, jobmap, job, task, sem_value, sem_waiters,
                   ready, waiting, nextId, now>>

\* Some coroutine calls job.request_cancellation() on job j.
RequestCancellation(j) ==
    /\ LoopIdle
    /\ task[j].pc # "none"
    /\ Apply(request_cancellation(Cur, j))
    /\ UNCHANGED <<callbacks, dispatch, ws, cache, http, env, disk, quota, maxc, jobmap, nextId, now>>

\* What the work function of job j awaits completes.
FutureDone(j) ==
    /\ LoopIdle
    /\ task[j].pc = "func"
    /\ task[j].fut = "pending"
    /\ task' = [task EXCEPT ![j].fut = "result"]
    /\ ready' = Append(ready, TaskItem(j))
    /\ UNCHANGED <<callbacks, dispatch, ws, cache, http, env, disk, quota, maxc, jobmap, job, sem_value, sem_waiters, waiting, nextId, now>>

\* Mutant: cancellation is cooperative only, the task is not interrupted.
task_cancel_flag_only(s, j) == s

\* Task.cancel on the task of job j: a pending future the task waits on is
\* cancelled, which wakes the task; otherwise the next step of the task throws.
task_cancel(s, j) ==
    IF s.task[j].fut = "pending"
    THEN [s EXCEPT !.task[j].fut = "cancelled", !.ready = Append(@, TaskItem(j))]
    ELSE [s EXCEPT !.task[j].must_cancel = TRUE]

\* Mutant: cancel marks the job Cancelled whatever its status is.
cancel_call_marks(s, j, found) ==
    IF ~found THEN s
    ELSE [s EXCEPT !.job[j].status = CANCELLED, !.job[j].error = CancelledMessage,
                   !.job[j].cancel_event = TRUE]

\* Mutant: cancel requests cancellation before it looks at the status.
cancel_call_requests_first(s, j, found) ==
    IF ~found THEN s
    ELSE LET s1 == request_cancellation(s, j)
         IN IF s.job[j].status \in {PENDING, RUNNING} /\ s1.task[j].pc \notin TaskFinished
            THEN task_cancel([s1 EXCEPT !.waiting[j] =
                                 Append(@, s.job[j].status)], j)
            ELSE s1

\* Mutant: cancel works on the job object without looking the id up.
cancel_call_no_lookup(s, j, found) ==
    IF s.job[j].status \in {PENDING, RUNNING}
    THEN LET s1 == request_cancellation(s, j)
         IN IF s1.task[j].pc \notin TaskFinished
            THEN task_cancel([s1 EXCEPT !.waiting[j] =
                                 Append(@, s.job[j].status)], j)
            ELSE s1
    ELSE s

\* JobQueue.cancel, up to "await job._task" or, when it does not wait, to
\* its return
cancel_call(s, j, found) ==
    IF ~found THEN s
    ELSE IF s.job[j].status \in {PENDING, RUNNING}
         THEN LET s1 == request_cancellation(s, j)
              IN IF s1.task[j].pc \notin TaskFinished
                 THEN task_cancel([s1 EXCEPT !.waiting[j] =
                                      Append(@, s.job[j].status)], j)
                 ELSE s1
         ELSE s

Outstanding ==
    Cardinality({i \in 1..Len(ready) : ready[i].kind = "call"})
    + Cardinality({<<j, i>> \in JobIds \X (1..MaxCancels) : i <= Len(waiting[j])})

cancel(j) ==
    /\ LoopIdle
    /\ Outstanding < MaxCancels
    /\ Apply(cancel_call(Cur, j, j \in jobmap))
    /\ UNCHANGED <<callbacks, dispatch, ws, cache, http, env, disk, quota, maxc, jobmap, nextId, now>>

\* Mutant: the route does not look at the status of the job.
cancel_job_raises_no_status_check(j) ==
    IF get(j) = <<>> THEN "NotFoundError" ELSE None

\* What the route DELETE /api/jobs/{job_id} raises before it calls
\* JobQueue.cancel: NotFoundError, HTTPException (400), or nothing.
cancel_job_raises(j) ==
    IF get(j) = <<>> THEN "NotFoundError"
    ELSE IF job[j].status \notin {PENDING, RUNNING} THEN "HTTPException"
    ELSE None

\* The route DELETE /api/jobs/{job_id}
cancel_job(j) ==
    /\ LoopIdle
    /\ Outstanding < MaxCancels
    /\ IF cancel_job_raises(j) # None
       THEN UNCHANGED <<job, task, sem_value, sem_waiters, ready, waiting>>
       ELSE Apply(cancel_call(Cur, j, get(j) # <<>>))
    /\ UNCHANGED <<callbacks, dispatch, ws, cache, http, env, disk, quota, maxc, jobmap, nextId, now>>

\* The awaited task has ended: cancel() resumes after "await job._task" and
\* returns the job.
StepCall ==
    /\ ready # <<>>
    /\ Head(ready).kind = "call"
    /\ ready' = Tail(ready)
    /\ UNCHANGED <<callbacks, dispatch, ws, cache, http, env, disk, quota, maxc, jobmap, job, task, sem_value, sem_waiters, waiting, nextId, now>>

\* Mutant: a job is collected as soon as its age reaches max_age_seconds.
ToRemove_not_older(max_age) ==
    {j \in jobmap : /\ job[j].status \in Terminal
                    /\ job[j].completed_at # NoTime
                    /\ now - job[j].completed_at >= max_age}

\* The jobs cleanup_completed(max_age_seconds) collects in to_remove.
ToRemove(max_age) ==
    {j \in jobmap : /\ job[j].status \in Terminal
                    /\ job[j].completed_at # NoTime
                    /\ now - job[j].completed_at > max_age}

\* "return len(to_remove)"
cleanup_completed_returns(max_age) == Cardinality(ToRemove(max_age))

\* JobQueue.cleanup_completed
cleanup_completed(max_age) ==
    /\ LoopIdle
    /\ jobmap' = jobmap \ ToRemove(max_age)
    /\ UNCHANGED <<callbacks, dispatch, ws, cache, http, env, disk, quota, maxc, job, task, sem_value, sem_waiters, ready, waiting, nextId, now>>

Tick ==
    /\ LoopIdle
    /\ now < MaxTime
    /\ now' = now + 1
    /\ UNCHANGED <<callbacks, dispatch, ws, cache, http, env, disk, quota, maxc, jobmap, job, task, sem_value, sem_waiters, ready, waiting, nextId>>

Next ==
    \/ submit
    \/ StepTask
    \/ StepCall
    \/ \E j \in JobIds : FutureDone(j)
    \/ \E j \in JobIds : cancel(j)
    \/ \E j \in JobIds : cancel_job(j)
    \/ \E a \in 0..MaxAge : cleanup_completed(a)
    \/ Tick

Spec == Init /\ [][Next]_vars

\* The queue when no job is ever cancelled and every work function, whenever
\* it runs often enough, returns or raises: the loop keeps running what is
\* ready, and what a work function awaits completes.
FuncEnds(j) ==
    /\ ready # <<>>
    /\ Head(ready) = TaskItem(j)
    /\ StepTask
    /\ job'[j].status \in {COMPLETED, FAILED}

NextNoCancel ==
    \/ submit
    \/ StepTask
    \/ \E j \in JobIds : FutureDone(j)
    \/ \E a \in 0..MaxAge : cleanup_completed(a)
    \/ Tick

LiveSpec ==
    /\ Init
    /\ [][NextNoCancel]_vars
    /\ WF_vars(StepTask)
    /\ \A j \in JobIds : WF_vars(FutureDone(j)) /\ SF_vars(FuncEnds(j))

\* The queue with one more job submitted and the clock left alone: admission
\* order does not depend on the timestamps or on cleanup_completed.
FifoInit == InitQuota(MaxJobs + 1)

FifoNext ==
    \/ submit
    \/ StepTask
    \/ StepCall
    \/ \E j \in JobIds : FutureDone(j)
    \/ \E j \in JobIds : cancel(j)

FifoSpec == FifoInit /\ [][FifoNext]_vars

\* Job objects used through their own methods: progress reports with
\* observers registered, and cancellation requested on the job directly.
JobInit == InitQuota(MaxObservedJobs)

JobNext ==
    \/ submit
    \/ StepTask
    \/ \E j \in JobIds : FutureDone(j)
    \/ \E j \in JobIds, u \in Updates : UpdateProgress(j, u)
    \/ \E raises \in BOOLEAN, m \in Mutations : Invoke(raises, m)
    \/ EndUpdate
    \/ \E j \in JobIds, o \in Observers : AddCallback(j, o)
    \/ \E j \in JobIds, o \in Observers : RemoveCallback(j, o)
    \/ \E j \in JobIds : RequestCancellation(j)

JobSpec == JobInit /\ [][JobNext]_vars

\* One job and one listener of its progress stream, with the clients that
\* cancel the job and clean the queue up.
WsInit == InitQuota(MaxObservedJobs)

WsNext ==
    \/ submit
    \/ StepTask
    \/ StepCall
    \/ \E j \in JobIds : FutureDone(j)
    \/ \E j \in JobIds : cancel(j)
    \/ \E a \in 0..MaxAge : cleanup_completed(a)
    \/ Tick
    \/ \E j \in JobIds, u \in Updates : UpdateProgress(j, u)
    \/ Invoke(FALSE, <<"none">>)
    \/ EndUpdate
    \/ \E j \in JobIds : WsConnect(j)
    \/ WsDisconnect
    \/ \E ok \in BOOLEAN : WsLookup(ok)
    \/ \E ok \in BOOLEAN : WsRegister(ok)
    \/ \E ok \in BOOLEAN : WsReceive(ok)
    \/ \E ok \in BOOLEAN : WsTimeout(ok)
    \/ \E ok \in BOOLEAN : WsAfterUpdate(ok)
    \/ WsAfterFinal

WsSpec == WsInit /\ [][WsNext]_vars

\* The next step of the handler when the listener stays connected and every
\* send succeeds.
WsStep ==
    \/ WsLookup(TRUE)
    \/ WsRegister(TRUE)
    \/ WsReceive(TRUE)
    \/ WsTimeout(TRUE)
    \/ WsAfterUpdate(TRUE)
    \/ WsAfterFinal

\* One job and a listener that stays connected: the loop keeps running what
\* is ready, what a work function awaits completes, the work function ends,
\* a send to the connected listener completes and wait_for returns or times
\* out after a second.
WsLiveNext ==
    \/ submit
    \/ StepTask
    \/ StepCall
    \/ \E j \in JobIds : FutureDone(j)
    \/ \E j \in JobIds : cancel(j)
    \/ \E a \in 0..MaxAge : cleanup_completed(a)
    \/ Tick
    \/ \E j \in JobIds, u \in Updates : UpdateProgress(j, u)
    \/ Invoke(FALSE, <<"none">>)
    \/ EndUpdate
    \/ \E j \in JobIds : WsConnect(j)
    \/ WsStep

WsLiveSpec ==
    /\ WsInit
    /\ [][WsLiveNext]_vars
    /\ WF_vars(StepTask)
    /\ WF_vars(StepCall)
    /\ WF_vars(Invoke(FALSE, <<"none">>))
    /\ WF_vars(EndUpdate)
    /\ \A j \in JobIds : WF_vars(FutureDone(j)) /\ SF_vars(FuncEnds(j))
    /\ WF_vars(WsStep)

\* ------------------------------------------------- recovery store, calls
\* Everything but the recovery directory.
QueueVars ==
    <<maxc, jobmap, job, task, sem_value, sem_waiters, ready, waiting, nextId, now,
      quota, callbacks, dispatch, ws, cache, http, env>>

\* json.dump(recovery_data, f, ...): the pieces written to the file, in
\* order: the opening brace, saved_at, the project's id and name, the
\* closing brace.
Serialize(project, t) == <<"{", ToString(t), project.id, project.name, "}">>

\* The files something else than save_recovery_state leaves in the
\* directory: a JSON list, a JSON object without any key, and text that is
\* not JSON.
ForeignTexts == {<<"[", "]">>, <<"{", "}">>, <<"#">>}

\* json.load: json whether the text is a JSON document, kind what Python
\* value it is, saved_at and project the values under these keys as <<v>>,
\* <<>> if the key is missing.
Parse(text) ==
    CASE Len(text) = 5 /\ text[1] = "{" /\ text[5] = "}" ->
             [json |-> TRUE, kind |-> "dict", saved_at |-> <<text[2]>>,
              project |-> <<[id |-> text[3], name |-> text[4]]>>]
      [] text = <<"{", "}">> ->
             [json |-> TRUE, kind |-> "dict", saved_at |-> <<>>, project |-> <<>>]
      [] text = <<"[", "]">> ->
             [json |-> TRUE, kind |-> "list", saved_at |-> <<>>, project |-> <<>>]
      [] OTHER ->
             [json |-> FALSE, kind |-> "", saved_at |-> <<>>, project |-> <<>>]

\* The outcome of a call of op, before its fields are filled in.
Return(op) == [NoReturn EXCEPT !.op = op]

\* clear_recovery_state; ok: unlink does not raise OSError.
clear_recovery_state(d, project_id, ok) ==
    LET f == _get_recovery_filename(project_id)
    IN IF d.files[f].there
       THEN IF ok
            THEN [d EXCEPT !.files[f] = NoFile,
                           !.saved[project_id] = <<>>,
                           !.ret = [Return("clear") EXCEPT !.returned = TRUE]]
            ELSE [d EXCEPT !.ret = Return("clear")]
       ELSE [d EXCEPT !.ret = Return("clear")]

\* load_recovery_state; ok: open and read do not raise OSError.
load_recovery_state(d, f, ok) ==
    IF ok /\ d.files[f].there /\ Parse(d.files[f].text).json
    THEN [Return("load") EXCEPT !.data = <<Parse(d.files[f].text)>>]
    ELSE Return("load")

\* RecoveryInfo(path, project_id, project_name, ...) of one file
RecoveryInfo(f, data) ==
    [path |-> f,
     project_id |-> IF data.project = <<>> THEN "unknown" ELSE data.project[1].id,
     project_name |-> IF data.project = <<>> THEN "Unknown Project"
                      ELSE data.project[1].name]

\* list_recovery_files; unreadable: the files whose open raises OSError.  A
\* file that is not JSON is skipped like an unreadable one; data.get on a
\* document that is no dict raises AttributeError, which no except clause of
\* the function catches.  The entries are given as a set, their order left
\* out.
list_recovery_files(d, unreadable) ==
    LET globbed == {f \in FileNames : d.files[f].there}
        data(f) == Parse(d.files[f].text)
        loaded == {f \in globbed \ unreadable : data(f).json}
    IN IF \E f \in loaded : data(f).kind # "dict"
       THEN [Return("list") EXCEPT !.raised = "AttributeError"]
       ELSE [Return("list") EXCEPT !.entries = {RecoveryInfo(f, data(f)) : f \in loaded}]

\* save_recovery_state, up to the return of filepath.open("w"): the file is
\* created or truncated.  prev: what the file was before the call.
SaveOpen(project, ok) ==
    /\ disk.saving = <<>>
    /\ LET f == _get_recovery_filename(project.id)
       IN disk' = IF ok
                  THEN [disk EXCEPT
                          !.files[f] = FileOf(<<>>),
                          !.saving = <<[project |-> project,
                                        rest |-> Serialize(project, now),
                                        prev |-> disk.files[f]]>>,
                          !.saved[project.id] = <<>>,
                          !.ret = Return("none")]
                  ELSE [disk EXCEPT !.ret = [Return("save") EXCEPT !.raised = "OSError"]]
    /\ UNCHANGED QueueVars

\* json.dump writes the next piece, or the write raises OSError and the
\* call is left with the file as far as it was written.
SaveWrite(ok) ==
    /\ disk.saving # <<>>
    /\ disk.saving[1].rest # <<>>
    /\ LET sv == disk.saving[1]
           f == _get_recovery_filename(sv.project.id)
       IN disk' = IF ok
                  THEN [disk EXCEPT !.files[f].text = Append(@, Head(sv.rest)),
                                    !.files[f].mtime = now,
                                    !.saving[1].rest = Tail(@)]
                  ELSE [disk EXCEPT !.saving = <<>>,
                                    !.ret = [Return("save") EXCEPT !.raised = "OSError"]]
    /\ UNCHANGED QueueVars

\* The with block is left and save_recovery_state returns the path.
SaveClose ==
    /\ disk.saving # <<>>
    /\ disk.saving[1].rest = <<>>
    /\ LET sv == disk.saving[1]
       IN disk' = [disk EXCEPT
                     !.saving = <<>>,
                     !.saved[sv.project.id] = <<sv.project>>,
                     !.ret = [Return("save") EXCEPT
                                !.path = <<_get_recovery_filename(sv.project.id)>>]]
    /\ UNCHANGED QueueVars

\* The process dies inside save_recovery_state: the call never returns and
\* the directory stays as it is.
Crash ==
    /\ disk.saving # <<>>
    /\ disk' = [disk EXCEPT !.saving = <<>>, !.ret = Return("none")]
    /\ UNCHANGED QueueVars

ClearRecoveryState(project_id, ok) ==
    /\ disk.saving = <<>>
    /\ disk' = clear_recovery_state(disk, project_id, ok)
    /\ UNCHANGED QueueVars

LoadRecoveryState(f, ok) ==
    /\ disk.saving = <<>>
    /\ disk' = [disk EXCEPT !.ret = load_recovery_state(disk, f, ok)]
    /\ UNCHANGED QueueVars

ListRecoveryFiles(unreadable) ==
    /\ disk.saving = <<>>
    /\ disk' = [disk EXCEPT !.ret = list_recovery_files(disk, unreadable)]
    /\ UNCHANGED QueueVars

\* Something else than this program writes a file into the directory.
ForeignWrite(text) ==
    /\ disk' = [disk EXCEPT !.files[StrayFile] = FileOf(text)]
    /\ UNCHANGED QueueVars

\* The recovery store used through its functions, with a process that can
\* die in the middle of a save.
RecoveryInit == InitQuota(0)

RecoveryNext ==
    \/ \E project \in Projects, ok \in BOOLEAN : SaveOpen(project, ok)
    \/ \E ok \in BOOLEAN : SaveWrite(ok)
    \/ SaveClose
    \/ Crash
    \/ \E p \in ProjectIds, ok \in BOOLEAN : ClearRecoveryState(p, ok)
    \/ \E f \in FileNames, ok \in BOOLEAN : LoadRecoveryState(f, ok)
    \/ \E unreadable \in SUBSET FileNames : ListRecoveryFiles(unreadable)
    \/ \E text \in ForeignTexts : ForeignWrite(text)

RecoverySpec == RecoveryInit /\ [][RecoveryNext]_vars

\* ------------------------------------------- cleanup_old_recovery_files
\* The recovery directory's clock counts in units of twelve hours.
UnitsPerDay == 2

\* (now - mtime).days: the whole days of the file's age
age_days(file) == (now - file.mtime) \div UnitsPerDay

\* The files cleanup_old_recovery_files(max_age_days) unlinks; stuck: the
\* files whose stat or unlink raises OSError, which are left where they are.
OldFiles(d, max_age_days, stuck) ==
    {f \in FileNames \ stuck : d.files[f].there /\ age_days(d.files[f]) > max_age_days}

cleanup_old_recovery_files(d, max_age_days, stuck) ==
    LET old == OldFiles(d, max_age_days, stuck)
    IN [d EXCEPT
          !.files = [f \in FileNames |-> IF f \in old THEN NoFile ELSE @[f]],
          !.saved = [p \in ProjectIds |->
                        IF _get_recovery_filename(p) \in old THEN <<>> ELSE @[p]],
          !.ret = [Return("cleanup") EXCEPT !.count = Cardinality(old)]]

CleanupOldRecoveryFiles(max_age_days, stuck) ==
    /\ disk.saving = <<>>
    /\ disk' = cleanup_old_recovery_files(disk, max_age_days, stuck)
    /\ UNCHANGED QueueVars

\* Twelve hours pass between two calls.
HalfDay ==
    /\ now < MaxFileAge
    /\ disk.saving = <<>>
    /\ now' = now + 1
    /\ UNCHANGED <<maxc, jobmap, job, task, sem_value, sem_waiters, ready, waiting, nextId,
                   quota, callbacks, dispatch, ws, disk, cache, http, env>>

\* The recovery directory as days go by: checkpoints are saved, other files
\* appear, and old files are cleaned up.
CleanupInit == InitQuota(0)

CleanupNext ==
    \/ \E project \in Projects : SaveOpen(project, TRUE)
    \/ SaveWrite(TRUE)
    \/ SaveClose
    \/ ForeignWrite(<<"#">>)
    \/ HalfDay
    \/ \E m \in 0..MaxAgeDays, stuck \in SUBSET FileNames : CleanupOldRecoveryFiles(m, stuck)

CleanupSpec == CleanupInit /\ [][CleanupNext]_vars

\* --------------------------------------------------- match cache, calls
Keys(mem) == {mem[i].id : i \in 1..Len(mem)}

\* _CACHE.get(match_id), <<>> for None
Lookup(mem, id) ==
    IF id \in Keys(mem)
    THEN <<mem[CHOOSE i \in 1..Len(mem) : mem[i].id = id]>>
    ELSE <<>>

\* _CACHE.pop(key, None) for every key of a set
Pop(mem, keys) == SelectSeq(mem, LAMBDA en : en.id \notin keys)

Expired(en, t) == t - en.created_at > CacheTtl

\* sorted(_CACHE.items(), key=created_at): a stable sort, entries of the
\* same age stay in insertion order.  The first n entries of that order.
RECURSIVE Oldest(_, _)
Oldest(mem, n) ==
    IF n = 0 \/ mem = <<>> THEN {}
    ELSE LET i == CHOOSE k \in 1..Len(mem) :
                     \A m \in 1..Len(mem) :
                        \/ mem[k].created_at < mem[m].created_at
                        \/ (mem[k].created_at = mem[m].created_at /\ k <= m)
         IN {mem[i].id} \cup Oldest(Pop(mem, {mem[i].id}), n - 1)

\* _cleanup_locked: the keys it removes, expired entries first, then the
\* oldest entries beyond the size limit.
Removed(mem, t) ==
    LET expired == {mem[i].id : i \in {k \in 1..Len(mem) : Expired(mem[k], t)}}
        kept == Pop(mem, expired)
    IN IF Len(kept) <= MaxCacheItems THEN expired
       ELSE expired \cup Oldest(kept, Len(kept) - MaxCacheItems)

\* _persist_match; outcome: "written", or the write fails before the file
\* is created ("failed") or after part of it was written ("partial").
\* "except Exception: pass": nothing of a failure is seen by the caller.
_persist_match(c, id, payload, outcome) ==
    CASE ~c.usable -> c
      [] outcome = "written" ->
             [c EXCEPT !.files[id] = <<[payload EXCEPT !.readable = TRUE]>>]
      [] outcome = "partial" ->
             [c EXCEPT !.files[id] = <<[payload EXCEPT !.readable = FALSE]>>]
      [] OTHER -> c

\* _delete_cache_file for every key of a set; deletable: unlink does not
\* raise, otherwise the file stays and the exception is dropped.
DeleteFiles(c, keys, deletable) ==
    IF deletable /\ c.usable
    THEN [c EXCEPT !.files = [i \in MatchIds |-> IF i \in keys THEN <<>> ELSE @[i]]]
    ELSE c

\* store_match at clock t with the fresh id
store_match(c, id, match, t, outcome, deletable) ==
    LET en == [id |-> id, match |-> match, created_at |-> t]
        c0 == [c EXCEPT !.ret = [NoCacheReturn EXCEPT !.op = "store"],
                        !.stored = Append(@, en)]
        c1 == [c0 EXCEPT !.mem = Append(@, en)]
        removed == Removed(c1.mem, t)
        c2 == [c1 EXCEPT !.mem = Pop(@, removed)]
        c3 == _persist_match(c2, id, [match |-> match, created_at |-> t, readable |-> TRUE],
                             outcome)
    IN IF c3.ret.raised # "" THEN c3
       ELSE [DeleteFiles(c3, removed, deletable) EXCEPT !.ret.id = id]

\* _load_match, <<>> for None
_load_match(c, id) ==
    IF c.files[id] # <<>> /\ c.files[id][1].readable
    THEN <<[id |-> id, match |-> c.files[id][1].match,
            created_at |-> c.files[id][1].created_at]>>
    ELSE <<>>

\* get_match at clock t.  On a miss _load_match asks _cache_path for the
\* file's path, which calls mkdir on the cache directory outside every try
\* block: when the directory cannot be created the OSError leaves get_match.
get_match(c, id, t, deletable) ==
    LET r == [NoCacheReturn EXCEPT !.op = "get", !.id = id]
        hit == Lookup(c.mem, id)
        entry == IF hit # <<>> THEN hit ELSE _load_match(c, id)
        c1 == IF hit = <<>> /\ entry # <<>>
              THEN [c EXCEPT !.mem = Append(@, entry[1])]
              ELSE c
    IN IF hit = <<>> /\ ~c.usable THEN [c EXCEPT !.ret = [r EXCEPT !.raised = "OSError"]]
       ELSE IF entry = <<>> THEN [c EXCEPT !.ret = r]
       ELSE IF Expired(entry[1], t)
            THEN [DeleteFiles([c1 EXCEPT !.mem = Pop(@, {id})], {id}, deletable)
                     EXCEPT !.ret = r]
            ELSE [c1 EXCEPT !.ret = [r EXCEPT !.value = <<entry[1].match>>]]

\* Everything but the match cache and the clock.
NoCacheVars ==
    <<maxc, jobmap, job, task, sem_value, sem_waiters, ready, waiting, nextId,
      quota, callbacks, dispatch, ws, disk, http, env>>

StoreMatch(match, outcome, deletable) ==
    /\ Len(cache.stored) < MaxStores
    /\ cache' = store_match(cache, Len(cache.stored) + 1, match, now, outcome, deletable)
    /\ UNCHANGED <<NoCacheVars, now>>

GetMatch(id, deletable) ==
    /\ cache' = get_match(cache, id, now, deletable)
    /\ UNCHANGED <<NoCacheVars, now>>

\* The cache directory can no longer be created or entered.
CacheDirLost ==
    /\ cache.usable
    /\ cache' = [cache EXCEPT !.usable = FALSE]
    /\ UNCHANGED <<NoCacheVars, now>>

\* The time to live passes once more.
CacheTick ==
    /\ now < MaxCacheTime
    /\ now' = now + 1
    /\ UNCHANGED <<NoCacheVars, cache>>

\* The match cache used through store_match and get_match as time goes by,
\* on a disk where writes and deletions can fail.
CacheInit == InitQuota(0)

CacheNext ==
    \/ \E match \in Matches, outcome \in {"written", "partial", "failed"},
          deletable \in BOOLEAN : StoreMatch(match, outcome, deletable)
    \/ \E id \in MatchIds, deletable \in BOOLEAN : GetMatch(id, deletable)
    \/ CacheDirLost
    \/ CacheTick

CacheSpec == CacheInit /\ [][CacheNext]_vars

\* ------------------------------------------------- CORS preflight, calls
\* CORSMiddleware(allow_origins=settings.cors_origins, allow_credentials=True,
\* allow_methods=["*"], allow_headers=["*"]) answering OPTIONS with an
\* Origin and an Access-Control-Request-Method header: 400 when the origin
\* or the method is not allowed, otherwise 200 with the request's origin
\* echoed (never "*", as credentials are allowed).
preflight_response(origin, method, headers) ==
    IF origin \in cors_origins /\ method \in AllowedMethods
    THEN [origin |-> origin, method |-> method, headers |-> headers,
          status |-> HttpOk, allow_origin |-> origin]
    ELSE [origin |-> origin, method |-> method, headers |-> headers,
          status |-> HttpBadRequest,
          allow_origin |-> IF origin \in cors_origins THEN origin ELSE ""]

\* OPTIONS /api/health
Preflight(origin, method, headers) ==
    /\ http' = preflight_response(origin, method, headers)
    /\ UNCHANGED <<maxc, jobmap, job, task, sem_value, sem_waiters, ready, waiting, nextId,
                   now, quota, callbacks, dispatch, ws, disk, cache, env>>

\* The application answering preflight requests.
CorsInit == InitQuota(0)

CorsNext ==
    \E origin \in Origins, method \in RequestMethods, headers \in RequestHeaders :
        Preflight(origin, method, headers)

CorsSpec == CorsInit /\ [][CorsNext]_vars

\* ----------------------------------------------- SSL certificates, calls
\* os.environ.setdefault(key, value)
setdefault(environ, key, value) ==
    IF environ[key] = Unset THEN [environ EXCEPT ![key] = value] ELSE environ

\* The files that exist: the custom bundle, and certifi's when the package
\* is installed with its bundle ("bundle"), not when the file is gone
\* ("nofile") or the import fails ("noimport").
ExistingFiles(certifi) ==
    {CustomBundle} \cup (IF certifi = "bundle" THEN {CertifiBundle} ELSE {})

configure_ssl_certificates(en, certifi) ==
    IF certifi = "bundle"
    THEN [en EXCEPT
            !.vars = setdefault(setdefault(setdefault(@, "SSL_CERT_FILE", CertifiBundle),
                                           "REQUESTS_CA_BUNDLE", CertifiBundle),
                                "CURL_CA_BUNDLE", CertifiBundle),
            !.called = TRUE,
            !.ret = <<CertifiBundle>>,
            !.before = en.vars]
    ELSE [en EXCEPT !.called = TRUE, !.ret = <<>>, !.before = en.vars]

\* Everything but the environment.
NoEnvVars ==
    <<maxc, jobmap, job, task, sem_value, sem_waiters, ready, waiting, nextId, now,
      quota, callbacks, dispatch, ws, disk, cache, http>>

\* The environment the process is started in sets or unsets a variable.
SetEnv(v, path) ==
    /\ ~env.called
    /\ env' = [env EXCEPT !.vars[v] = path]
    /\ UNCHANGED NoEnvVars

ConfigureSslCertificates(certifi) ==
    /\ ~env.called
    /\ env' = configure_ssl_certificates(env, certifi)
    /\ UNCHANGED NoEnvVars

\* The process is started anew in the environment it left.
Restart ==
    /\ env.called
    /\ env' = [NoEnvironment EXCEPT !.vars = env.vars]
    /\ UNCHANGED NoEnvVars

SslInit == InitQuota(0)

SslNext ==
    \/ \E v \in CaVariables, path \in CaPaths \cup {Unset} : SetEnv(v, path)
    \/ \E certifi \in {"bundle", "nofile", "noimport"} : ConfigureSslCertificates(certifi)
    \/ Restart

SslSpec == SslInit /\ [][SslNext]_vars

\* ------------------------------------------------------ executor calls
\* "await loop.run_in_executor(None, fn)": when the work function of job j
\* has just suspended, what it awaits is the future of a function that now
\* executes in a thread of the default executor.
Offloaded(s, j) ==
    IF s.task[j].pc = "func" /\ s.task[j].fut = "pending"
    THEN [s EXCEPT !.task[j].thread = TRUE]
    ELSE s

\* The loop runs the task of a job whose work function, like
\* run_export_job, does its blocking work in executor calls.
StepExport ==
    /\ ready # <<>>
    /\ Head(ready).kind = "task"
    /\ LET j == Head(ready).id
       IN /\ task[j].pc # "dispatch"
          /\ \E ch \in Choices(Thrown(j)) :
             /\ ch.upd = <<>> \/ callbacks[j] = <<>>
             /\ Apply(Offloaded(TaskStep([Cur EXCEPT !.ready = Tail(@)], j, ch.upd, ch.out,
                                         ch.v, ch.e), j))
    /\ UNCHANGED <<callbacks, dispatch, ws, cache, http, env, disk, quota, maxc, jobmap, nextId, now>>

\* The function executing in the executor thread of job j returns.  Its
\* future wakes the task up if the task still awaits it; a thread cannot be
\* interrupted, so after Task.cancel() it runs on to this point with nobody
\* awaiting it.
ThreadDone(j) ==
    /\ LoopIdle
    /\ task[j].thread
    /\ IF task[j].pc = "func" /\ task[j].fut = "pending"
       THEN /\ task' = [task EXCEPT ![j].thread = FALSE, ![j].fut = "result"]
            /\ ready' = Append(ready, TaskItem(j))
       ELSE /\ task' = [task EXCEPT ![j].thread = FALSE]
            /\ ready' = ready
    /\ UNCHANGED <<callbacks, dispatch, ws, cache, http, env, disk, quota, maxc, jobmap, job, sem_value, sem_waiters, waiting, nextId, now>>

\* Jobs that work in executor threads, with the clients that cancel them.
ExecInit == InitQuota(MaxJobs)

ExecNext ==
    \/ submit
    \/ StepExport
    \/ StepCall
    \/ \E j \in JobIds : ThreadDone(j)
    \/ \E j \in JobIds : cancel(j)

ExecSpec == ExecInit /\ [][ExecNext]_vars

\* ------------------------------------------------------ process route
\* The process route: georectify_job, a closure over request.project_id,
\* is submitted to the queue.  Nothing is written to the recovery
\* directory.
process(project_id) ==
    /\ LoopIdle
    /\ nextId <= quota
    /\ jobmap' = jobmap \cup {nextId}
    /\ task' = [task EXCEPT ![nextId].pc = "new"]
    /\ ready' = Append(ready, TaskItem(nextId))
    /\ nextId' = nextId + 1
    /\ disk' = [disk EXCEPT !.protects[nextId] = <<project_id>>]
    /\ UNCHANGED <<cache, http, env, callbacks, dispatch, ws, quota, maxc, job, sem_value, sem_waiters, waiting, now>>

\* Mutant: the checkpoint is cleared on every way out of the work function.
StepProcess_clears_on_exit ==
    /\ ready # <<>>
    /\ Head(ready).kind = "task"
    /\ LET j == Head(ready).id
       IN /\ task[j].pc # "dispatch"
          /\ disk.protects[j] # <<>>
          /\ \E ch \in Choices(Thrown(j)), ok \in BOOLEAN :
             /\ ch.upd = <<>> \/ callbacks[j] = <<>>
             /\ Apply(TaskStep([Cur EXCEPT !.ready = Tail(@)], j, ch.upd, ch.out, ch.v, ch.e))
             /\ disk' = IF task[j].outcome = <<>> /\ task'[j].outcome # <<>>
                        THEN clear_recovery_state(disk, disk.protects[j][1], ok)
                        ELSE disk
    /\ UNCHANGED <<cache, http, env, callbacks, dispatch, ws, quota, maxc, jobmap, nextId, now>>

\* The loop runs the task of a process job.  run_georectification calls
\* clear_recovery_state(project_id) right before it returns its result, and
\* on no other way out.
StepProcess ==
    /\ ready # <<>>
    /\ Head(ready).kind = "task"
    /\ LET j == Head(ready).id
       IN /\ task[j].pc # "dispatch"
          /\ disk.protects[j] # <<>>
          /\ \E ch \in Choices(Thrown(j)), ok \in BOOLEAN :
             /\ ch.upd = <<>> \/ callbacks[j] = <<>>
             /\ Apply(TaskStep([Cur EXCEPT !.ready = Tail(@)], j, ch.upd, ch.out, ch.v, ch.e))
             /\ disk' = IF task[j].outcome = <<>> /\ task'[j].outcome # <<>>
                           /\ task'[j].outcome[1] = "return"
                        THEN clear_recovery_state(disk, disk.protects[j][1], ok)
                        ELSE disk
    /\ UNCHANGED <<cache, http, env, callbacks, dispatch, ws, quota, maxc, jobmap, nextId, now>>

\* Georectification jobs on the queue, with the clients that cancel them
\* and clean the queue up.
ProcessInit == InitQuota(MaxObservedJobs)

ProcessNext ==
    \/ \E p \in ProjectIds : process(p)
    \/ StepProcess
    \/ StepCall
    \/ \E j \in JobIds : FutureDone(j)
    \/ \E j \in JobIds : cancel(j)
    \/ \E a \in 0..MaxAge : cleanup_completed(a)
    \/ Tick

ProcessSpec == ProcessInit /\ [][ProcessNext]_vars

\* save_recovery_state when nothing fails, from open to return: the file of
\* the project holds the whole document.
save_recovery_state(d, project) ==
    LET f == _get_recovery_filename(project.id)
    IN [d EXCEPT !.files[f] = FileOf(Serialize(project, now)),
                 !.saved[project.id] = <<project>>,
                 !.ret = [Return("save") EXCEPT !.path = <<f>>]]

\* A caller saves a checkpoint between two steps of the loop.
SaveCheckpoint(project) ==
    /\ LoopIdle
    /\ disk.saving = <<>>
    /\ disk' = save_recovery_state(disk, project)
    /\ UNCHANGED QueueVars

\* The restore route reads a checkpoint between two steps of the loop.
LoadCheckpoint(f, ok) ==
    /\ LoopIdle
    /\ LoadRecoveryState(f, ok)

\* The recovery files are listed between two steps of the loop.
ListCheckpoints(unreadable) ==
    /\ LoopIdle
    /\ ListRecoveryFiles(unreadable)

\* Georectification jobs of projects whose checkpoints are saved, read and
\* listed while the jobs run, with the clients that cancel the jobs.
CheckpointInit == InitQuota(MaxObservedJobs)

CheckpointNext ==
    \/ \E project \in Projects : SaveCheckpoint(project)
    \/ \E f \in FileNames, ok \in BOOLEAN : LoadCheckpoint(f, ok)
    \/ \E unreadable \in SUBSET FileNames : ListCheckpoints(unreadable)
    \/ \E p \in ProjectIds : process(p)
    \/ StepProcess
    \/ StepCall
    \/ \E j \in JobIds : FutureDone(j)
    \/ \E j \in JobIds : cancel(j)

CheckpointSpec == CheckpointInit /\ [][CheckpointNext]_vars

\* ================================================================ claims
Running == {j \in JobIds : job[j].status = RUNNING}

\* The cancel() calls that are resuming, i.e. returning, for job j and that
\* were made when the job had status st.
Returning(j, st) == \E i \in 1..Len(ready) : ready[i] = CallItem(j, st)

\* Waiters of the semaphore that were handed the slot and have not resumed.
HandedOff == {j \in JobIds : task[j].pc = "acquire" /\ task[j].fut = "result"}

\* C1: with max_concurrent = N at most N jobs are Running in every reachable
\* state; with N = 1 two jobs are never Running together, so the second one
\* starts only after the first has left Running for a terminal state.
C1_AdmissionBound ==
    /\ Cardinality(Running) <= maxc
    /\ maxc = 1 => \A j, k \in Running : j = k

C1_Witness ==
    /\ maxc = 1
    /\ \E j, k \in JobIds :
          /\ job[j].status = RUNNING
          /\ job[k].status = PENDING
          /\ task[k].pc = "acquire"

\* The status changes the job state machine allows.
AllowedTransitions ==
    {<<PENDING, RUNNING>>, <<RUNNING, COMPLETED>>, <<RUNNING, FAILED>>,
     <<RUNNING, CANCELLED>>, <<PENDING, CANCELLED>>}

\* C2: a job's status only changes Pending->Running, Running->Completed,
\* Running->Failed, Running->Cancelled or Pending->Cancelled; a terminal
\* status never changes again, whatever operation is performed.
C2_Transitions ==
    [][\A j \in JobIds :
          job'[j].status # job[j].status =>
              <<job[j].status, job'[j].status>> \in AllowedTransitions]_vars

C2_Witness ==
    \E j, k \in JobIds :
        /\ job[j].status = COMPLETED
        /\ job[j].cancel_event
        /\ j \notin jobmap
        /\ job[k].status = CANCELLED

\* C3: a job cancelled while Pending ends Cancelled, with its error set and
\* completed_at stamped.  Stated on the final state of the job: when such a
\* cancel() resumes after awaiting the task, the task has ended and the job
\* never changes again.
C3_PendingCancelEndsCancelled ==
    \A j \in JobIds :
        Returning(j, PENDING) /\ task[j].pc \in TaskFinished =>
            /\ job[j].status = CANCELLED
            /\ job[j].error # None
            /\ job[j].completed_at # NoTime

\* C4: cancel() on a Running job interrupts the work function without its
\* cooperation, and when cancel() returns the job is terminal; if the work
\* function never swallowed the signal the job is Cancelled with error
\* "Job was cancelled" and completed_at set.
C4_RunningCancel ==
    \A j \in JobIds :
        /\ ( /\ waiting[j] # <<>>
             /\ job[j].status = RUNNING
             /\ ~task[j].caught )
           => ( /\ Thrown(j)
                /\ \E i \in 1..Len(ready) : ready[i] = TaskItem(j) )
        /\ Returning(j, RUNNING) =>
              /\ job[j].status \in Terminal
              /\ ~task[j].caught =>
                    /\ job[j].status = CANCELLED
                    /\ job[j].error = CancelledMessage
                    /\ job[j].completed_at # NoTime

C4_Witness ==
    \E j \in JobIds :
        /\ ready # <<>>
        /\ Head(ready) = CallItem(j, RUNNING)
        /\ ~task[j].caught
        /\ job[j].status = CANCELLED
        /\ job[j].error = CancelledMessage

\* C5: every job in a terminal state has exactly one of result and error
\* non-null, and completed_at non-null.
C5_TerminalExclusivity ==
    \A j \in JobIds :
        job[j].status \in Terminal =>
            /\ (job[j].result # None) # (job[j].error # None)
            /\ job[j].completed_at # NoTime

\* C6: a Pending or Running job has result, error and completed_at null, also
\* after cancellation has been requested on it.
C6_NonTerminalEmpty ==
    \A j \in JobIds :
        job[j].status \in {PENDING, RUNNING} =>
            /\ job[j].result = None
            /\ job[j].error = None
            /\ job[j].completed_at = NoTime

C6_Witness ==
    \E j, k \in JobIds :
        /\ job[j].status = RUNNING
        /\ job[j].cancel_event
        /\ job[k].status = PENDING
        /\ job[k].cancel_event

\* C7 as claimed: free slots plus Running jobs equals max_concurrent in every
\* reachable state.
C7_SlotBalance == sem_value + Cardinality(Running) = maxc

\* C7 as amended: free slots, plus Running jobs, plus the Pending jobs that
\* release() has handed a slot and that have not resumed yet, equals
\* max_concurrent in every reachable state.
C7_SlotBalanceHandoff ==
    /\ sem_value >= 0
    /\ sem_value + Cardinality(Running) + Cardinality(HandedOff) = maxc

C7_Witness ==
    \E j, k \in JobIds :
        /\ job[j].status = FAILED
        /\ k \in HandedOff
        /\ task[k].must_cancel
        /\ sem_value = 0

\* A job whose work function raised e is Failed with error e and no result,
\* and its supervising task has returned normally.
C8_FailedState ==
    \A j \in JobIds :
        (task[j].outcome # <<>> /\ task[j].outcome[1] = "raise") =>
            /\ job[j].status = FAILED
            /\ job[j].error = task[j].outcome[2]
            /\ job[j].result = None
            /\ task[j].pc = "done"

\* The step that makes a job Failed takes it from Running and changes the
\* status, result and error of no other job.
C8_FailedStep ==
    \A j \in JobIds :
        (job[j].status # FAILED /\ job'[j].status = FAILED) =>
            /\ job[j].status = RUNNING
            /\ \A k \in JobIds \ {j} :
                  /\ job'[k].status = job[k].status
                  /\ job'[k].result = job[k].result
                  /\ job'[k].error = job[k].error

\* C8: when the work function of a job raises an error, that job goes
\* Running->Failed with the error's description as its error, the supervisor
\* returns normally, and that step changes the status, result and error of
\* no other job.
C8_FailureIsolated == [](C8_FailedState) /\ [][C8_FailedStep]_vars

C8_Witness ==
    \E j, k \in JobIds :
        /\ task[j].outcome = <<"raise", "boom">>
        /\ job[j].status = FAILED
        /\ job[k].status = RUNNING

\* C9: a job whose work function returned v is Completed with result v, no
\* error and progress 1.0, whatever progress it reported before.
C9_CompletedResult ==
    \A j \in JobIds :
        (task[j].outcome # <<>> /\ task[j].outcome[1] = "return") =>
            /\ job[j].status = COMPLETED
            /\ job[j].result = task[j].outcome[2]
            /\ job[j].error = None
            /\ job[j].progress = ProgressFull

C9_Witness ==
    \E j \in JobIds :
        /\ task[j].outcome = <<"return", "ok">>
        /\ job[j].step = "matching"
        /\ job[j].status = COMPLETED

\* C10: when no job is cancelled and every work function returns or raises,
\* every submitted job eventually reaches a terminal state and eventually
\* all max_concurrent slots are free for good.
C10_AllJobsFinish ==
    /\ \A j \in JobIds : (task[j].pc # "none") ~> (job[j].status \in Terminal)
    /\ <>[](sem_value = maxc)

C10_Witness ==
    /\ maxc = 1
    /\ nextId > quota
    /\ \A j \in 1..quota : job[j].status \in Terminal
    /\ sem_value = maxc

\* C11: Pending jobs are admitted in submission order.  Ids are handed out in
\* submission order, so: whenever a job B goes Pending->Running, no job A
\* submitted before B that has not been cancelled is still Pending, also when
\* jobs submitted between A and B were cancelled while Pending.
C11_FifoAdmission ==
    [][\A a, b \in JobIds :
          ( /\ a < b
            /\ a \in jobmap
            /\ ~job[a].cancel_event
            /\ job[b].status = PENDING
            /\ job'[b].status = RUNNING )
          => job[a].status # PENDING]_vars

C11_Witness ==
    \E a, m, b \in JobIds :
        /\ a < m /\ m < b
        /\ maxc = 1
        /\ job[a].status \in Terminal /\ ~job[a].cancel_event
        /\ job[m].status = PENDING /\ job[m].cancel_event
        /\ task[m].pc = "cancelled"
        /\ job[b].status = RUNNING /\ ~job[b].cancel_event

\* A cancel(j) call made now returns without waiting.
CanCall == LoopIdle /\ Outstanding < MaxCancels

\* C12: cancel(id) on a job in a terminal state changes none of its fields
\* and nothing else; so a second cancel(id), made after the first one
\* returned, leaves the job as the first one left it.
C12_TerminalCancelNoEffect ==
    [][\A j \in JobIds :
          ( /\ cancel(j)
            /\ j \in jobmap
            /\ \/ job[j].status \in Terminal
               \/ job[j].cancel_event /\ task[j].pc \in TaskFinished )
          => UNCHANGED vars]_vars

C12_Witness ==
    \E j, k \in jobmap :
        /\ CanCall
        /\ job[j].status = COMPLETED /\ ~job[j].cancel_event
        /\ job[k].status = CANCELLED /\ job[k].cancel_event
        /\ task[k].pc \in TaskFinished /\ waiting[k] = <<>>

\* The route answers a terminal job with an error that is not the not-found
\* error, and an unknown id with the not-found error.
C13_RouteErrors ==
    \A j \in JobIds :
        /\ (j \in jobmap /\ job[j].status \in Terminal) =>
               cancel_job_raises(j) \notin {None, "NotFoundError"}
        /\ j \notin jobmap => cancel_job_raises(j) = "NotFoundError"

\* A rejected DELETE changes nothing.
C13_RejectedStep ==
    \A j \in JobIds :
        (cancel_job(j) /\ (j \notin jobmap \/ job[j].status \in Terminal))
        => UNCHANGED vars

\* C13: DELETE /api/jobs/{id} on a job in a terminal state is rejected with
\* an error distinct from not-found and leaves the job unchanged; on an
\* unknown id it is rejected with not-found.
C13_RouteRejects == [](C13_RouteErrors) /\ [][C13_RejectedStep]_vars

C13_Witness ==
    \E j \in jobmap, k \in JobIds \ jobmap :
        /\ CanCall
        /\ job[j].status = FAILED
        /\ cancel_job_raises(j) = "HTTPException"
        /\ job[k].status = COMPLETED
        /\ cancel_job_raises(k) = "NotFoundError"

\* An id that is not in the map is answered with None.
C14_GetUnknown == \A j \in JobIds \ jobmap : get(j) = <<>>

\* cancel() of an id that is not in the map changes nothing and does not wait.
C14_CancelUnknownStep ==
    \A j \in JobIds \ jobmap : cancel(j) => UNCHANGED vars

\* C14: get(id) and cancel(id) for an id that is not in the job map return
\* None, do not wait, and leave the map and every job unchanged.
C14_UnknownId == [](C14_GetUnknown) /\ [][C14_CancelUnknownStep]_vars

C14_Witness ==
    \E j, k \in JobIds \ jobmap :
        /\ CanCall
        /\ task[j].pc = "done"
        /\ task[k].pc = "none"
        /\ jobmap # {}

\* A client that has a job left to submit can do so whatever the slots are.
C15_NeverWaits == (LoopIdle /\ nextId <= quota) => ENABLED submit

\* A job whose supervising task has not run yet is Pending and get() finds it.
C15_Submitted ==
    \A j \in JobIds :
        task[j].pc = "new" => (get(j) = <<j>> /\ job[j].status = PENDING)

\* submit() stores a Pending job and touches neither the semaphore nor any
\* job.
C15_SubmitStep ==
    submit => /\ nextId \in jobmap'
              /\ job'[nextId].status = PENDING
              /\ UNCHANGED <<job, sem_value, sem_waiters>>

\* C15: submit() never waits for an execution slot: it returns also when
\* every slot is taken; the job it returns is Pending, and get(job.id) finds
\* that job from the moment submit() returns.
C15_SubmitReturnsPending ==
    [](C15_NeverWaits /\ C15_Submitted) /\ [][C15_SubmitStep]_vars

C15_Witness ==
    \E j, k \in jobmap :
        /\ sem_value = 0
        /\ job[j].status = RUNNING
        /\ task[k].pc = "new"
        /\ job[k].status = PENDING
        /\ ready = <<TaskItem(k)>>

\* The observers the last update_progress call has invoked, in order.
InvokedObservers == [i \in 1..Len(dispatch.invoked) |-> dispatch.invoked[i].o]

\* update_progress has just returned to the work function of job j.
JustReturned(j) ==
    dispatch.j = j /\ dispatch.st = "returned" /\ task[j].pc = "enter"

\* C16: after update_progress(p, step, message), for p below 0, inside and
\* above 1, the job's progress is max(0, min(1, p)) and its step and message
\* are the arguments; progress is within [0, 1] in every reachable state.
C16_ProgressClamped ==
    \A j \in JobIds :
        /\ job[j].progress \in ProgressZero..ProgressFull
        /\ (dispatch.j = j /\ task[j].pc \in {"dispatch", "enter"}) =>
              LET u == dispatch.upd[1]
                  lo == IF u.p < ProgressFull THEN u.p ELSE ProgressFull
              IN /\ job[j].progress = IF lo > ProgressZero THEN lo ELSE ProgressZero
                 /\ job[j].step = u.step
                 /\ job[j].message = u.message

C16_Witness ==
    \E j \in JobIds :
        /\ JustReturned(j)
        /\ dispatch.upd[1].p > ProgressFull
        /\ job[j].progress = ProgressFull
        /\ job[j].step = "matching"

\* How the work function of a job ended decides the job's terminal state.
TerminalAsWorkEnded ==
    \A j \in JobIds :
        task[j].outcome # <<>> =>
            CASE task[j].outcome[1] = "return" ->
                     job[j].status = COMPLETED /\ job[j].result = task[j].outcome[2]
              [] task[j].outcome[1] = "raise" ->
                     job[j].status = FAILED /\ job[j].error = task[j].outcome[2]
              [] OTHER -> job[j].status = CANCELLED

\* C17: when observers raise, update_progress still returns normally, every
\* observer registered is still called with the update, and the job reaches
\* the terminal state its work function decides.
C17_RaisingObserverIsolated ==
    /\ dispatch.st # "raised"
    /\ (dispatch.st = "returned" /\ ~dispatch.mutated) =>
           InvokedObservers = dispatch.begun
    /\ TerminalAsWorkEnded

C17_Witness ==
    \E j \in JobIds :
        /\ dispatch.j = j
        /\ dispatch.st = "returned"
        /\ Len(dispatch.invoked) = 2
        /\ dispatch.invoked[1].raised
        /\ dispatch.invoked[1].o # dispatch.invoked[2].o
        /\ task[j].outcome = <<"return", "ok">>
        /\ job[j].status = COMPLETED

Count(seq, o) == Cardinality({i \in 1..Len(seq) : seq[i] = o})

\* C19: when an observer removes itself or another observer, or adds one,
\* while an update is dispatched, every other observer that was registered
\* when the dispatch began is still invoked exactly once; removing an
\* observer that is not registered changes nothing.
C19_MutationDuringDispatch ==
    \A j \in JobIds :
        /\ JustReturned(j) =>
              \A o \in Observers :
                  ( /\ o \notin dispatch.removed
                    /\ Count(dispatch.begun, o) = 1
                    /\ Count(callbacks[j], o) = 1 )
                  => Count(InvokedObservers, o) = 1
        /\ \A o \in Observers :
              Count(callbacks[j], o) = 0 =>
                  remove_progress_callback(callbacks[j], o) = callbacks[j]

\* C20: request_cancellation() is idempotent, and on a job in a terminal
\* state it changes nothing, the cancellation flag included.
C20_RequestCancellationFrame ==
    [][\A j \in JobIds :
          (RequestCancellation(j) /\ (job[j].cancel_event \/ job[j].status \in Terminal))
          => UNCHANGED vars]_vars

\* started_at is null exactly for Pending jobs, completed_at is set exactly
\* for terminal jobs.
C21_TimestampsMatchStatus ==
    \A j \in JobIds :
        /\ (job[j].started_at = NoTime) <=> (job[j].status = PENDING)
        /\ (job[j].completed_at # NoTime) <=> (job[j].status \in Terminal)

\* A timestamp that is set keeps its value.
C21_TimestampsKept ==
    \A j \in JobIds :
        /\ job[j].started_at # NoTime => job'[j].started_at = job[j].started_at
        /\ job[j].completed_at # NoTime => job'[j].completed_at = job[j].completed_at

\* C21: in every reachable state started_at is null exactly when the job is
\* Pending and completed_at is non-null exactly when it is terminal; a
\* timestamp that has been set never changes.
C21_Timestamps == [](C21_TimestampsMatchStatus) /\ [][C21_TimestampsKept]_vars

C21_Witness ==
    \E j, k \in jobmap :
        /\ job[j].status \in Terminal
        /\ job[j].started_at = 0
        /\ job[j].completed_at = MaxTime
        /\ now = MaxTime
        /\ job[k].status = PENDING
        /\ job[k].cancel_event
        /\ task[k].pc = "cancelled"
        /\ job[k].started_at = NoTime

\* The kinds of the messages the listener was sent, in order.
SentKinds == [i \in 1..Len(ws.sent) |-> ws.sent[i].kind]

\* The handler's callback is registered on job j.
Registered(j) == \E i \in 1..Len(callbacks[j]) : callbacks[j][i] = ProgressCallback

\* The listener asked for a job that was not in the queue.
AnsweredNotFound == ws.sent # <<>> /\ ws.sent[1].message = "Job not found"

\* What the listener of an existing job has been sent so far: the snapshot
\* first and only first, at most one final message, and that one last.
C22_StreamShape ==
    (ws.sent # <<>> /\ ~AnsweredNotFound) =>
        /\ SentKinds[1] = "snapshot"
        /\ \A i \in 2..Len(ws.sent) : SentKinds[i] # "snapshot"
        /\ Cardinality({i \in 1..Len(ws.sent) : SentKinds[i] = "final"}) <= 1
        /\ \A i \in 1..Len(ws.sent) : SentKinds[i] = "final" => i = Len(ws.sent)

\* Nothing is sent once the final message is out or the channel is closed.
C22_NothingAfterFinal ==
    (ws.closed \/ ws.pc = "final") => ws'.sent = ws.sent

\* C22: the listener of an existing job is sent the snapshot first, the
\* updates after it and before the final message, at most one final
\* message, and nothing after that one before the channel closes.
C22_StreamOrder == [](C22_StreamShape) /\ [][C22_NothingAfterFinal]_vars

C22_Witness ==
    /\ SentKinds = <<"snapshot", "update", "final">>
    /\ ws.closed
    /\ ws.pc = "done"
    /\ ws.sent[1].status = PENDING
    /\ ws.sent[3].status = COMPLETED

\* A listener of a job that is not in the queue has been sent the one
\* not-found message and was closed with code 4004; no callback is
\* registered.
C23_NotFoundState ==
    AnsweredNotFound =>
        /\ ws.sent = <<NotFoundMessage(ws.id)>>
        /\ ws.closed /\ ws.code = CloseNotFound
        /\ ws.pc = "done"
        /\ \A j \in JobIds : ~Registered(j)

\* The handler's answer when it looks up a job that is not in the queue
C23_NotFoundStep ==
    (WsLookup(TRUE) /\ get(ws.id) = <<>>) =>
        /\ ws'.sent = <<NotFoundMessage(ws.id)>>
        /\ ws'.closed /\ ws'.code = CloseNotFound
        /\ callbacks' = callbacks

\* C23: a listener connecting with a job id that is not in the queue is sent
\* exactly one message {error: "Job not found", job_id}, the channel is
\* closed with code 4004, and no observer is registered on any job.
C23_NotFound == [](C23_NotFoundState) /\ [][C23_NotFoundStep]_vars

C23_Witness ==
    /\ AnsweredNotFound
    /\ ws.code = CloseNotFound
    /\ ws.id \in 1..quota
    /\ job[ws.id].status = COMPLETED
    /\ ws.id \notin jobmap

\* C24: whenever the streaming handler has terminated, the observer it
\* registered is no longer in the job's observer registry.
C24_ObserverRemoved ==
    ws.pc = "done" => \A j \in JobIds : ~Registered(j)

\* C25: the final message carries the job's terminal status; its result is
\* the job's result exactly when the status is Completed and null otherwise;
\* for a Failed or Cancelled job its message is the job's error string.
C25_FinalMessage ==
    \A i \in 1..Len(ws.sent) :
        ws.sent[i].kind = "final" =>
            LET jb == job[ws.id]
                m == ws.sent[i]
            IN /\ m.status = jb.status
               /\ jb.status \in Terminal
               /\ m.result = IF jb.status = COMPLETED THEN jb.result ELSE None
               /\ jb.status \in {FAILED, CANCELLED} => m.message = jb.error


\* C26: when the process dies at any point inside save_recovery_state, the
\* project's path holds the file as it was before the call (or no file if
\* there was none) or the complete new checkpoint, never a part of it.
C26_CrashLeavesCompleteFile ==
    [][Crash =>
         LET sv == disk.saving[1]
             f == _get_recovery_filename(sv.project.id)
         IN disk'.files[f] \in {sv.prev, FileOf(Serialize(sv.project, now))}]_vars

\* The files of the directory that hold a checkpoint of project p.
CheckpointsOf(p) ==
    {f \in FileNames :
        /\ disk.files[f].there
        /\ Parse(disk.files[f].text).project # <<>>
        /\ Parse(disk.files[f].text).project[1].id = p}

\* C27: for every project id whose last save_recovery_state call returned,
\* exactly one file of the directory holds a checkpoint of that id, and
\* load_recovery_state of that file returns the id and the name of the
\* project that call was given.
C27_LoadReturnsLastSaved ==
    \A p \in ProjectIds :
        disk.saved[p] # <<>> =>
            /\ Cardinality(CheckpointsOf(p)) = 1
            /\ \A f \in CheckpointsOf(p) :
                  LET r == load_recovery_state(disk, f, TRUE)
                  IN /\ r.data # <<>>
                     /\ r.data[1].project = <<disk.saved[p][1]>>

\* Both projects were saved, p1 last under the name B, and the load of p1's
\* file has just returned its data.
C27_Witness ==
    /\ \A p \in ProjectIds : disk.saved[p] # <<>>
    /\ disk.saved["p1"][1].name = "B"
    /\ disk.ret.op = "load"
    /\ disk.ret.data # <<>>
    /\ disk.ret.data[1].project = <<[id |-> "p1", name |-> "B"]>>

\* C28: clear_recovery_state(p) returns True exactly when p's file was there
\* and this call deleted it; afterwards p's file is not there, the same call
\* made again returns False, and every other file is as it was.
C28_ClearDeletes ==
    [][\A p \in ProjectIds, ok \in BOOLEAN :
          ClearRecoveryState(p, ok) =>
              LET f == _get_recovery_filename(p)
              IN /\ disk'.ret.returned = (disk.files[f].there /\ ~disk'.files[f].there)
                 /\ ~disk'.files[f].there
                 /\ \A again \in BOOLEAN :
                       ~clear_recovery_state(disk', p, again).ret.returned
                 /\ \A g \in FileNames \ {f} : disk'.files[g] = disk.files[g]]_vars

\* C29: whenever a job the process route submitted for project p is Running,
\* p's checkpoint file is there and complete.
C29_CheckpointWhileRunning ==
    \A j \in jobmap :
        (disk.protects[j] # <<>> /\ job[j].status = RUNNING) =>
            LET f == _get_recovery_filename(disk.protects[j][1])
            IN /\ disk.files[f].there
               /\ Parse(disk.files[f].text).project # <<>>

\* C30: whatever files the directory holds and whichever of them cannot be
\* read, list_recovery_files returns, with one entry for each readable file
\* that holds a checkpoint and no entry for any other file.
C30_ListingSkipsBadFiles ==
    [][\A unreadable \in SUBSET FileNames :
          ListRecoveryFiles(unreadable) =>
              /\ disk'.ret.raised = ""
              /\ disk'.ret.entries =
                    {RecoveryInfo(f, Parse(disk.files[f].text)) :
                        f \in {g \in FileNames \ unreadable :
                                  /\ disk.files[g].there
                                  /\ Parse(disk.files[g].text).project # <<>>}}]_vars


\* C31: cleanup_old_recovery_files(max_age_days) deletes exactly the files
\* whose age is greater than max_age_days (a file aged a day and a half is
\* deleted when max_age_days is one), leaves the others in place and
\* returns the number of files it deleted.
C31_CleanupOldExact ==
    [][\A m \in 0..MaxAgeDays, stuck \in SUBSET FileNames :
          CleanupOldRecoveryFiles(m, stuck) =>
              /\ \A f \in FileNames :
                    /\ (disk.files[f].there /\ now - disk.files[f].mtime > m * UnitsPerDay)
                          => ~disk'.files[f].there
                    /\ ~(disk.files[f].there /\ now - disk.files[f].mtime > m * UnitsPerDay)
                          => disk'.files[f] = disk.files[f]
              /\ disk'.ret.count =
                    Cardinality({f \in FileNames :
                                    disk.files[f].there /\ ~disk'.files[f].there})]_vars


\* C32: cleanup_completed(max_age) removes from the job map exactly the jobs
\* in a terminal status whose completed_at is more than max_age ago and
\* returns how many it removed; no Pending or Running job is removed and
\* nothing about any job, removed or not, is changed.
C32_CleanupCompletedExact ==
    [][\A a \in 0..MaxAge :
          cleanup_completed(a) =>
              /\ jobmap' \subseteq jobmap
              /\ \A j \in jobmap :
                    j \notin jobmap' <=>
                        /\ job[j].status \in {COMPLETED, FAILED, CANCELLED}
                        /\ job[j].completed_at # NoTime
                        /\ now - job[j].completed_at > a
              /\ \A j \in jobmap \ jobmap' : job[j].status \notin {PENDING, RUNNING}
              /\ cleanup_completed_returns(a) = Cardinality(jobmap \ jobmap')
              /\ UNCHANGED <<job, task, callbacks, ready, waiting, sem_value, sem_waiters>>]_vars

\* A cleanup has removed a finished job while another job is Running.
C32_Witness ==
    /\ \E j \in 1..(nextId - 1) : j \notin jobmap
    /\ \E k \in jobmap : job[k].status = RUNNING


\* The ids store_match has returned whose entry is not older than the TTL.
WithinTtl == {i \in 1..Len(cache.stored) : now - cache.stored[i].created_at <= CacheTtl}

\* C33: whether or not the cache file could be written, get_match of an id
\* store_match returned raises nothing and gives back the stored match for
\* as long as the TTL has not passed.
C33_StoredWithinTtl ==
    \A i \in WithinTtl :
        \A deletable \in BOOLEAN :
            LET r == get_match(cache, i, now, deletable).ret
            IN r.raised = "" /\ r.value = <<cache.stored[i].match>>


\* C34: a preflight request is answered 200 with access-control-allow-origin
\* equal to its origin when the origin is tauri://localhost,
\* http://tauri.localhost, https://tauri.localhost, http://localhost:1420 or
\* http://localhost:5173, and 400 for any other origin.
C34_PreflightOrigins ==
    http.status # 0 =>
        IF http.origin \in {"tauri://localhost", "http://tauri.localhost",
                            "https://tauri.localhost", "http://localhost:1420",
                            "http://localhost:5173"}
        THEN http.status = HttpOk /\ http.allow_origin = http.origin
        ELSE http.status = HttpBadRequest


\* C35: when configure_ssl_certificates returns a path, the path names an
\* existing file and SSL_CERT_FILE, REQUESTS_CA_BUNDLE and CURL_CA_BUNDLE all
\* equal it; if SSL_CERT_FILE named an existing file before the call, that
\* file is the one returned, and if it named a missing file it does so no
\* longer.
C35_CaBundleConfigured ==
    [][\A certifi \in {"bundle", "nofile", "noimport"} :
          (ConfigureSslCertificates(certifi) /\ env'.ret # <<>>) =>
              /\ env'.ret[1] \in ExistingFiles(certifi)
              /\ \A v \in CaVariables : env'.vars[v] = env'.ret[1]
              /\ env.vars["SSL_CERT_FILE"] \in ExistingFiles(certifi)
                    => env'.ret[1] = env.vars["SSL_CERT_FILE"]
              /\ env.vars["SSL_CERT_FILE"] = MissingBundle
                    => env'.vars["SSL_CERT_FILE"] # MissingBundle]_vars


\* C36: at most max_concurrent jobs have a function executing in an
\* executor thread at any time.
C36_ExecutingBounded ==
    Cardinality({j \in JobIds : task[j].thread}) <= maxc

\* C37: when the final message is sent to a listener that is still
\* connected, every update its observer has put into progress_queue has been
\* transmitted: none is left in the queue.
C37_UpdatesBeforeFinal ==
    (ws.pc = "final" /\ ws.connected) => ws.queue = <<>>

\* The handler has sent the initial status of an existing job and has not
\* returned yet.
Listening == ws.pc \in {"snapshot", "waiting", "update", "final"}

\* The final message is among the messages the listener was sent.
FinalSent == \E i \in 1..Len(ws.sent) : ws.sent[i].kind = "final"

\* C38: once the job of a listener that stays connected is terminal, the
\* listener eventually has the final message and the channel is closed.
C38_FinalEventually ==
    (Listening /\ job[ws.id].status \in Terminal) ~> (FinalSent /\ ws.closed)

\* The jobs suspended in Semaphore.acquire that no release has woken and no
\* cancel has reached.
AwaitingSlot == {j \in JobIds : task[j].pc = "acquire" /\ task[j].fut = "pending"}

\* While a job waits for a slot no slot is free or lost: each of the
\* max_concurrent slots is held by a Running job or has been handed to a
\* waiter that the loop is about to resume.
C39_SlotPassedOn ==
    AwaitingSlot # {} =>
        /\ sem_value = 0
        /\ Cardinality(Running) + Cardinality(HandedOff) = maxc
        /\ \A k \in HandedOff : \E i \in 1..Len(ready) : ready[i] = TaskItem(k)

\* A Pending job on which cancel() was called stays out of the work: it
\* does not become Running (its status stays as it is), started_at stays
\* null and its task never reaches the call of the work function.
C39_NeverRuns ==
    \A j \in JobIds :
        (job[j].status = PENDING /\ job[j].cancel_event) =>
            /\ job'[j].status = PENDING
            /\ job'[j].started_at = NoTime
            /\ task'[j].pc \notin {"enter", "dispatch", "func"}
            /\ task'[j].outcome = <<>>

\* C39: a job cancelled while Pending never becomes Running and its work
\* function is never invoked, also when a release had already handed it the
\* slot; the slot goes on to the next waiting job.
C39_PendingCancelNeverRuns == [](C39_SlotPassedOn) /\ [][C39_NeverRuns]_vars

\* The slot was handed to a waiting job, cancel() was then called on it, and
\* another job is still waiting for a slot.
C39_Witness ==
    \E k, w \in JobIds :
        /\ maxc = 1
        /\ k \in HandedOff
        /\ job[k].status = PENDING /\ job[k].cancel_event
        /\ task[k].must_cancel
        /\ w \in AwaitingSlot
        /\ ~job[w].cancel_event

\* The file of the project that job j works on.
CheckpointOf(j) == _get_recovery_filename(disk.protects[j][1])

\* A step that changes a file is no load_recovery_state call and no
\* list_recovery_files call; a step of a job changes
\* the directory only by deleting the checkpoint of its own project, in the
\* step in which its work function returns and the job becomes Completed; a
\* step in which a job becomes Failed or Cancelled changes no file.
C40_Step ==
    /\ disk'.files # disk.files =>
          /\ \A f \in FileNames, ok \in BOOLEAN : ~LoadCheckpoint(f, ok)
          /\ \A unreadable \in SUBSET FileNames : ~ListCheckpoints(unreadable)
    /\ (disk'.files # disk.files /\ StepProcess) =>
          LET j == Head(ready).id
          IN /\ job[j].status = RUNNING
             /\ job'[j].status = COMPLETED
             /\ task'[j].outcome # <<>> /\ task'[j].outcome[1] = "return"
             /\ ~disk'.files[CheckpointOf(j)].there
             /\ \A g \in FileNames \ {CheckpointOf(j)} : disk'.files[g] = disk.files[g]
    /\ \A j \in JobIds :
          (job[j].status # job'[j].status /\ job'[j].status \in {FAILED, CANCELLED})
             => disk'.files = disk.files

\* C40: load_recovery_state and list_recovery_files never delete or change a
\* checkpoint file, nor does a georectification job that ends Failed or
\* Cancelled; the job deletes its checkpoint only when its last step has
\* succeeded.
C40_CheckpointKept == [][C40_Step]_vars

\* A job has ended Failed or Cancelled, the checkpoint of its project is
\* still there with the content that was saved, and the directory has been
\* listed since.
C40_Witness ==
    \E j \in JobIds :
        /\ job[j].status \in {FAILED, CANCELLED}
        /\ disk.protects[j] # <<>>
        /\ disk.files[CheckpointOf(j)].there
        /\ disk.saved[disk.protects[j][1]] # <<>>
        /\ disk.files[CheckpointOf(j)].text
              = Serialize(disk.saved[disk.protects[j][1]][1], disk.files[CheckpointOf(j)].mtime)
        /\ disk.ret.op = "list"
        /\ disk.ret.entries # {}

====
